---- MODULE Spec2Model ----
(***************************************************************************)
(* libtoml: schema-directed TOML decoders that write into fixed-extent,    *)
(* caller-owned memory.                                                    *)
(*                                                                         *)
(*   toml.c   toml_load with tables, inline tables, arrays and arrays of   *)
(*            tables (scan, scan_word, load_array, target_address,         *)
(*            load_key_value, load_inline_table, toml_load)                *)
(*   mtoml.c  the flat decoder (scan, scan_word, target_address,           *)
(*            toml_load)                                                   *)
(*   lex.c    the lexer (lex_init, lex_scan_next and what they call)       *)
(*                                                                         *)
(* The input stream is a sequence of bytes (character codes).  Caller      *)
(* memory is an array of cells: one cell per char of a string buffer and   *)
(* one cell per scalar; addresses are cell indexes, NULL is 0.  The C      *)
(* types are those of an ILP32 build (int and long are 32 bits wide).      *)
(*                                                                         *)
(* One action is one iteration of the top-level loop of toml_load.  The    *)
(* stream is produced lazily: when the decoder is at the start of an       *)
(* expression and nothing but white space is left unread, the next piece   *)
(* of the file (one of the lines of its suite) is appended, or the file    *)
(* ends there.  The lexer is run on its own, one call of lex_scan_next per *)
(* action.                                                                 *)
(***************************************************************************)
EXTENDS Integers, Sequences, FiniteSets, TLC

(***************************************************************************)
(* Bounds of the model.                                                    *)
(***************************************************************************)
MaxLines == 4      \* pieces of input a file is made of
SLen     == 3      \* declared capacity (.len) of every string key
VCap     == 2      \* declared capacity (.maxlen) of the arrays v, f and w
ACap     == 2      \* declared capacity (.maxlen) of the array of tables a
StoreLen == 4      \* size (.storelen) of the storage of the string array w
ParLines == 2      \* lines of the text of each of two calls made together
RealDigits == 2    \* digits after the point that the cell of a real holds

(***************************************************************************)
(* Characters.                                                             *)
(***************************************************************************)
Ord ==
  ("\n" :> 10) @@ (" " :> 32) @@ ("\"" :> 34) @@ ("#" :> 35) @@
  ("'" :> 39) @@ ("+" :> 43) @@ ("," :> 44) @@ ("-" :> 45) @@
  ("." :> 46) @@ (":" :> 58) @@ ("0" :> 48) @@ ("1" :> 49) @@
  ("2" :> 50) @@ ("3" :> 51) @@ ("4" :> 52) @@ ("5" :> 53) @@
  ("6" :> 54) @@ ("7" :> 55) @@ ("8" :> 56) @@ ("9" :> 57) @@
  ("=" :> 61) @@ ("?" :> 63) @@ ("A" :> 65) @@ ("B" :> 66) @@
  ("C" :> 67) @@ ("D" :> 68) @@ ("E" :> 69) @@ ("F" :> 70) @@
  ("T" :> 84) @@ ("X" :> 88) @@ ("Z" :> 90) @@ ("[" :> 91) @@
  ("\\" :> 92) @@ ("]" :> 93) @@ ("_" :> 95) @@ ("a" :> 97) @@
  ("b" :> 98) @@ ("c" :> 99) @@ ("d" :> 100) @@ ("e" :> 101) @@
  ("f" :> 102) @@ ("g" :> 103) @@ ("h" :> 104) @@ ("i" :> 105) @@
  ("j" :> 106) @@ ("k" :> 107) @@ ("l" :> 108) @@ ("m" :> 109) @@
  ("n" :> 110) @@ ("o" :> 111) @@ ("p" :> 112) @@ ("q" :> 113) @@
  ("r" :> 114) @@ ("s" :> 115) @@ ("t" :> 116) @@ ("u" :> 117) @@
  ("v" :> 118) @@ ("w" :> 119) @@ ("x" :> 120) @@ ("y" :> 121) @@
  ("z" :> 122) @@ ("{" :> 123) @@ ("}" :> 125)

\* the bytes of a text given as a tuple of one-character strings
Bytes(t) == [i \in 1..Len(t) |-> Ord[t[i]]]

\* n copies of the byte c
Rep(c, n) == [i \in 1..n |-> c]

NUL == 0

\* the pointer value NULL, for addresses
NULL == 0

\* the pointer value NULL, for (const char *) key names
NULLSTR == <<-1>>

\* isspace(3) in the C locale
isspace(c) == c \in {32, 9, 10, 11, 12, 13}

\* the characters scan_word collects into a WORD
IsWordChar(c) ==
  \/ (c >= 97 /\ c <= 122)
  \/ (c >= 65 /\ c <= 90)
  \/ c \in {48, 49, 50, 51, 52, 53, 54, 55, 56, 57, 43, 45, 95, 46}

TOKBUFSIZ == 512

\* sizeof(tokbuf) in mtoml.c
MTOKBUFSIZ == 128

(***************************************************************************)
(* Token types.  scan returns -1 at end of input and on a lexical error.   *)
(***************************************************************************)
LDOUBLEBRACKET == 0
RDOUBLEBRACKET == 1
LBRACKET       == 2
RBRACKET       == 3
LBRACE         == 4
RBRACE         == 5
EQUAL          == 6
COMMA          == 7
DOT            == 8
WORD           == 9
STRINGTOK      == 10   \* STRING in the source

\* the first index i >= p of In with a double quote or a newline, or
\* Len(In)+1 (end of input)
FirstQuoteOrNL(In, p) ==
  CHOOSE i \in p..(Len(In) + 1) :
    /\ (i = Len(In) + 1 \/ In[i] = 34 \/ In[i] = 10)
    /\ \A j \in p..(i - 1) : In[j] # 34 /\ In[j] # 10

\* the first index i >= p of In with a newline, or Len(In)+1
FirstNL(In, p) ==
  CHOOSE i \in p..(Len(In) + 1) :
    /\ (i = Len(In) + 1 \/ In[i] = 10)
    /\ \A j \in p..(i - 1) : In[j] # 10

\* the first index i >= p of In with a character that is not a word
\* character, or Len(In)+1
FirstNotWord(In, p) ==
  CHOOSE i \in p..(Len(In) + 1) :
    /\ (i = Len(In) + 1 \/ ~IsWordChar(In[i]))
    /\ \A j \in p..(i - 1) : IsWordChar(In[j])

(***************************************************************************)
(* scan_word: In[p] is the character c that scan has just read.            *)
(* Result: tok, the token text left in buf, the position p of the next     *)
(* unread character, eof (getc returned EOF), lex (a lexical error), and   *)
(* hi, the number of bytes of buf written: buf[0] to buf[hi - 1].          *)
(***************************************************************************)
scan_word(In, p, size) ==
  IF In[p] = 34
  THEN \* a string: characters up to the closing quote
       LET q == FirstQuoteOrNL(In, p + 1)
           m == q - (p + 1)       \* characters before the stop
       IN  IF m >= size /\ m >= 1
           THEN \* valp >= buf + size - 1 when storing character number size
                [tok |-> -1, text |-> <<>>,
                 p |-> p + 1 + (IF size >= 1 THEN size ELSE 1),
                 eof |-> FALSE, lex |-> TRUE,
                 hi |-> IF size >= 1 THEN size - 1 ELSE 0]
           ELSE IF q > Len(In)
           THEN [tok |-> -1, text |-> <<>>, p |-> q, eof |-> TRUE, lex |-> TRUE,
                 hi |-> m]
           ELSE IF In[q] = 10
           THEN [tok |-> -1, text |-> <<>>, p |-> q + 1, eof |-> FALSE,
                 lex |-> TRUE, hi |-> m]
           ELSE [tok |-> STRINGTOK, text |-> SubSeq(In, p + 1, q - 1),
                 p |-> q + 1, eof |-> FALSE, lex |-> FALSE, hi |-> m + 1]
  ELSE \* integer, real, or boolean: the first character is always stored
       LET e == FirstNotWord(In, p + 1)
           k == e - (p + 1)       \* word characters after the first
           lim == IF size - 1 >= 1 THEN size - 1 ELSE 1
       IN  IF k >= lim
           THEN [tok |-> -1, text |-> <<>>, p |-> p + 1 + lim,
                 eof |-> FALSE, lex |-> TRUE, hi |-> lim]
           ELSE [tok |-> WORD, text |-> SubSeq(In, p, e - 1), p |-> e,
                 eof |-> e > Len(In), lex |-> FALSE, hi |-> k + 2]

Punct(t, p, eof) ==
  [tok |-> t, text |-> <<>>, p |-> p, eof |-> eof, lex |-> FALSE, hi |-> 0]

(***************************************************************************)
(* scan: the next token of In from position p on.                          *)
(***************************************************************************)
RECURSIVE scan(_, _, _)
scan(In, p, size) ==
  IF p > Len(In)
  THEN [tok |-> -1, text |-> <<>>, p |-> p, eof |-> TRUE, lex |-> FALSE,
        hi |-> 0]
  ELSE LET c == In[p] IN
    IF isspace(c) THEN scan(In, p + 1, size)
    ELSE IF c = 35 THEN
      LET e == FirstNL(In, p + 1) IN scan(In, e + 1, size)
    ELSE IF c = 61 THEN Punct(EQUAL, p + 1, FALSE)
    ELSE IF c = 91 THEN
      IF p + 1 <= Len(In) /\ In[p + 1] = 91
      THEN Punct(LDOUBLEBRACKET, p + 2, FALSE)
      ELSE Punct(LBRACKET, p + 1, p + 1 > Len(In))
    ELSE IF c = 93 THEN
      IF p + 1 <= Len(In) /\ In[p + 1] = 93
      THEN Punct(RDOUBLEBRACKET, p + 2, FALSE)
      ELSE Punct(RBRACKET, p + 1, p + 1 > Len(In))
    ELSE IF c = 123 THEN Punct(LBRACE, p + 1, FALSE)
    ELSE IF c = 125 THEN Punct(RBRACE, p + 1, FALSE)
    ELSE IF c = 44 THEN Punct(COMMA, p + 1, FALSE)
    ELSE IF c = 46 THEN Punct(DOT, p + 1, FALSE)
    ELSE scan_word(In, p, size)

(***************************************************************************)
(* Caller memory: the layout of the destinations of the schema below.      *)
(***************************************************************************)
A_s      == 1                       \* char s[SLen]
A_n      == A_s + SLen              \* int n
A_b      == A_n + 1                 \* bool b
A_v      == A_b + 1                 \* int v[VCap]
A_vcount == A_v + VCap              \* int vcount
A_ts     == A_vcount + 1            \* char t.s[SLen]
A_tn     == A_ts + SLen             \* int t.n
A_a      == A_tn + 1                \* struct elem a[ACap]
OFF_n    == 0                       \* offsetof(struct elem, n)
OFF_s    == 1                       \* offsetof(struct elem, s)
StructSize == 1 + SLen              \* sizeof(struct elem): int n; char s[SLen]
A_acount == A_a + ACap * StructSize \* int acount
A_l      == A_acount + 1            \* long l
A_f      == A_l + 1                 \* bool f[VCap]
A_fcount == A_f + VCap              \* int fcount
A_wptrs  == A_fcount + 1            \* char *w[VCap]
A_wstore == A_wptrs + VCap          \* char wstore[StoreLen]
A_wcount == A_wstore + StoreLen     \* int wcount
A_r      == A_wcount + 1            \* double r
A_e      == A_r + 1                 \* struct eelem e[ACap]
EStructSize == OFF_n + 1            \* sizeof(struct eelem): int n
A_ecount == A_e + ACap * EStructSize \* int ecount
A_h      == A_ecount + 1            \* short h
A_u      == A_h + 1                 \* unsigned short u
A_i      == A_u + 1                 \* unsigned int i
A_q      == A_i + 1                 \* unsigned short q[VCap]
A_qcount == A_q + VCap              \* int qcount
MemSize  == A_qcount

Addrs == 1..MemSize

\* char g[GLen], a buffer larger than the token buffer of toml.c; it lies
\* behind the other destinations and only the callers that use it have it
GLen == TOKBUFSIZ + 2
A_g  == MemSize + 1

(***************************************************************************)
(* The schema (template structures): struct toml_key_t and                 *)
(* struct toml_array_t.  A scope is a sequence of descriptors that ends    *)
(* with the sentinel {NULL}.                                               *)
(***************************************************************************)
NoArray == [type |-> "none", maxlen |-> 0, count |-> NULL, integers |-> NULL,
            subtype |-> "none", base |-> NULL, structsize |-> 0,
            booleans |-> NULL, ptrs |-> NULL, store |-> NULL, storelen |-> 0]

IntArray(store, maxlen, count) ==
  [NoArray EXCEPT !.type = "integer_t", !.integers = store,
                  !.maxlen = maxlen, !.count = count]

\* arr.ushortints shares the storage of arr.integers
UShortArray(store, maxlen, count) ==
  [NoArray EXCEPT !.type = "ushort_t", !.integers = store,
                  !.maxlen = maxlen, !.count = count]

BoolArray(store, maxlen, count) ==
  [NoArray EXCEPT !.type = "boolean_t", !.booleans = store,
                  !.maxlen = maxlen, !.count = count]

\* STRINGARRAY(w, wstore, n)
StrArray(ptrs, store, storelen, maxlen, count) ==
  [NoArray EXCEPT !.type = "string_t", !.ptrs = ptrs, !.store = store,
                  !.storelen = storelen, !.maxlen = maxlen, !.count = count]

\* TABLEARRAY(a, t, n)
TableArray(base, structsize, subtype, maxlen, count) ==
  [NoArray EXCEPT !.type = "table_t", !.base = base,
                  !.structsize = structsize, !.subtype = subtype,
                  !.maxlen = maxlen, !.count = count]

Key(name, type, addr, len, keys, array) ==
  [key |-> name, type |-> type, addr |-> addr, len |-> len, keys |-> keys,
   array |-> array]

Sentinel == Key(NULLSTR, "none", NULL, 0, "none", NoArray)

K_s == Bytes(<<"s">>)
K_n == Bytes(<<"n">>)
K_b == Bytes(<<"b">>)
K_v == Bytes(<<"v">>)
K_t == Bytes(<<"t">>)
K_a == Bytes(<<"a">>)
K_l == Bytes(<<"l">>)
K_f == Bytes(<<"f">>)
K_w == Bytes(<<"w">>)
K_r == Bytes(<<"r">>)
K_e == Bytes(<<"e">>)
K_g == Bytes(<<"g">>)
K_h == Bytes(<<"h">>)
K_u == Bytes(<<"u">>)
K_i == Bytes(<<"i">>)
K_q == Bytes(<<"q">>)

Schema ==
  [ root |-> << Key(K_s, "string_t", A_s, SLen, "none", NoArray),
                Key(K_n, "integer_t", A_n, 0, "none", NoArray),
                Key(K_b, "boolean_t", A_b, 0, "none", NoArray),
                Key(K_v, "array_t", NULL, 0, "none",
                    IntArray(A_v, VCap, A_vcount)),
                Key(K_t, "table_t", NULL, 0, "t", NoArray),
                Key(K_a, "array_t", NULL, 0, "none",
                    TableArray(A_a, StructSize, "elem", ACap, A_acount)),
                Key(K_l, "long_t", A_l, 0, "none", NoArray),
                Key(K_f, "array_t", NULL, 0, "none",
                    BoolArray(A_f, VCap, A_fcount)),
                Key(K_w, "array_t", NULL, 0, "none",
                    StrArray(A_wptrs, A_wstore, StoreLen, VCap, A_wcount)),
                Key(K_e, "array_t", NULL, 0, "none",
                    TableArray(A_e, EStructSize, "eelem", ACap, A_ecount)),
                Key(K_g, "string_t", A_g, GLen, "none", NoArray),
                Key(K_h, "short_t", A_h, 0, "none", NoArray),
                Key(K_u, "ushort_t", A_u, 0, "none", NoArray),
                Key(K_i, "uinteger_t", A_i, 0, "none", NoArray),
                Key(K_q, "array_t", NULL, 0, "none",
                    UShortArray(A_q, VCap, A_qcount)),
                Sentinel >>,
    t    |-> << Key(K_s, "string_t", A_ts, SLen, "none", NoArray),
                Key(K_n, "integer_t", A_tn, 0, "none", NoArray),
                Sentinel >>,
    \* TABLEFIELD(struct elem, f): addr is the offset of the field
    elem |-> << Key(K_n, "integer_t", OFF_n, 0, "none", NoArray),
                Key(K_s, "string_t", OFF_s, SLen, "none", NoArray),
                Sentinel >>,
    eelem |-> << Key(K_n, "integer_t", OFF_n, 0, "none", NoArray),
                 Sentinel >> ]

\* Lookup with a search that stops at the last descriptor instead of the
\* sentinel
Lookup_nosentinel(keys, key) ==
  LET i == CHOOSE i \in 1..(Len(keys) - 1) :
             /\ (i = Len(keys) - 1 \/ keys[i].key = key)
             /\ \A j \in 1..(i - 1) : keys[j].key # key
  IN  keys[i]

\* for (cursor = keys; cursor->key != NULL; cursor++)
\*     if (strcmp(cursor->key, key) == 0) break;
Lookup(keys, key) ==
  LET i == CHOOSE i \in 1..Len(keys) :
             /\ (keys[i].key = NULLSTR \/ keys[i].key = key)
             /\ \A j \in 1..(i - 1) :
                  keys[j].key # NULLSTR /\ keys[j].key # key
  IN  keys[i]

(***************************************************************************)
(* The parse state threaded through the functions:                         *)
(*   p    position of the next unread character of the stream              *)
(*   eof  getc has returned EOF                                            *)
(*   lex  a scan made so far ended in a lexical error                      *)
(*   mem  caller memory                                                    *)
(*   w    the writes to caller memory made so far, in order, each          *)
(*        <<address, value, p at the time of the write>>                   *)
(*   hi   the largest number of bytes that a scan made so far wrote to the *)
(*        token buffer it was given                                        *)
(***************************************************************************)
X0(memory) ==
  [p |-> 1, eof |-> FALSE, lex |-> FALSE, mem |-> memory, w |-> <<>>,
   hi |-> 0]

\* x after the scan that returned token t
Scanned(x, t) ==
  [x EXCEPT !.p = t.p, !.eof = @ \/ t.eof, !.lex = @ \/ t.lex,
            !.hi = IF t.hi > @ THEN t.hi ELSE @]

\* store the values vals at addr, addr+1, ...
MemWrite(x, addr, vals) ==
  [x EXCEPT
     !.mem = [a \in DOMAIN x.mem |->
                IF a >= addr /\ a < addr + Len(vals)
                THEN vals[a - addr + 1] ELSE x.mem[a]],
     !.w = @ \o [i \in 1..Len(vals) |-> <<addr + i - 1, vals[i], x.p>>]]

Ret(rc, x) == [rc |-> rc, x |-> x]

(***************************************************************************)
(* strtol(s, &endptr, base0), base0 0 or 10, with long 32 bits wide.       *)
(* What strtol takes as a prefix depends on the C library the build links: *)
(* isoc23 is TRUE when it converts as ISO C23 says, taking 0b or 0B as the *)
(* prefix of a binary number for base 0 and base 2, and FALSE when it      *)
(* stops at the b.  It is fixed for a run.                                 *)
(***************************************************************************)
VARIABLE isoc23

LONG_MAX == 2147483647
LONG_MIN == -LONG_MAX - 1

DigitVal(c) ==
  IF c >= 48 /\ c <= 57 THEN c - 48
  ELSE IF c >= 97 /\ c <= 122 THEN c - 97 + 10
  ELSE IF c >= 65 /\ c <= 90 THEN c - 65 + 10
  ELSE 99

\* accumulate the digits of s from i on in the given base; acc holds the
\* negated magnitude so that LONG_MIN is representable
RECURSIVE strtol_digits(_, _, _, _, _, _)
strtol_digits(s, i, base, acc, any, over) ==
  IF i > Len(s) \/ DigitVal(s[i]) >= base
  THEN [acc |-> acc, end |-> i, any |-> any, over |-> over]
  ELSE LET d == DigitVal(s[i])
           \* the largest m with m * base + d <= LONG_MAX + 1
           lim == IF d = 0
                  THEN (IF LONG_MAX % base = base - 1
                        THEN LONG_MAX \div base + 1 ELSE LONG_MAX \div base)
                  ELSE (LONG_MAX - (d - 1)) \div base
       IN  IF over \/ acc < -lim
           THEN strtol_digits(s, i + 1, base, acc, TRUE, TRUE)
           ELSE strtol_digits(s, i + 1, base, acc * base - d, TRUE, FALSE)

\* the base strtol converts in and the index of the first digit, for a
\* text whose sign, if any, ends before i0
strtol_base(s, i0, base0) ==
  LET lead == Len(s) >= i0 + 2 /\ s[i0] = 48
      hex == /\ base0 \in {0, 16} /\ lead /\ s[i0 + 1] \in {120, 88}
             /\ DigitVal(s[i0 + 2]) < 16
      bin == /\ isoc23 /\ base0 \in {0, 2} /\ lead /\ s[i0 + 1] \in {98, 66}
             /\ DigitVal(s[i0 + 2]) < 2
  IN  IF hex THEN [base |-> 16, start |-> i0 + 2]
      ELSE IF bin THEN [base |-> 2, start |-> i0 + 2]
      ELSE IF base0 # 0 THEN [base |-> base0, start |-> i0]
      ELSE IF Len(s) >= i0 /\ s[i0] = 48 THEN [base |-> 8, start |-> i0]
      ELSE [base |-> 10, start |-> i0]

\* the digits of s converted from b.start on in base b.base
strtol_from(s, b) == strtol_digits(s, b.start, b.base, 0, FALSE, FALSE)

\* what strtol returns and stores for the digits r of a text, negative or
\* not
strtol_result(neg, r) ==
  IF ~r.any THEN [val |-> 0, end |-> 1, erange |-> FALSE]
  ELSE IF r.over \/ (~neg /\ r.acc = LONG_MIN)
  THEN [val |-> IF neg THEN LONG_MIN ELSE LONG_MAX, end |-> r.end,
        erange |-> TRUE]
  ELSE [val |-> IF neg THEN r.acc ELSE -r.acc, end |-> r.end,
        erange |-> FALSE]

\* Result: val, end (index of the first character not converted, 1 when
\* no conversion was performed), erange (errno == ERANGE)
strtol(s, base0) ==
  strtol_result(
    Len(s) >= 1 /\ s[1] = 45,
    strtol_from(s, strtol_base(s, IF Len(s) >= 1 /\ s[1] \in {43, 45}
                                  THEN 2 ELSE 1, base0)))

\* (int) val: int is as wide as long, every long value is an int value
CastInt(val) == IF val >= LONG_MIN /\ val <= LONG_MAX THEN val ELSE 0

\* the widths in bits of short and of long; int is as wide as long
ShortBits == 16
LongBits  == 32

\* 2^w
RECURSIVE Pow2(_)
Pow2(w) == IF w = 0 THEN 1 ELSE 2 * Pow2(w - 1)

\* the conversion of val to the unsigned type of w bits: val modulo 2^w
ToUnsigned(val, w) == val % Pow2(w)

\* the conversion of val to the signed type of w bits: the value whose
\* two's complement representation is the low w bits of val
ToSigned(val, w) ==
  IF ToUnsigned(val, w) >= Pow2(w - 1) THEN ToUnsigned(val, w) - Pow2(w)
  ELSE ToUnsigned(val, w)

\* CastTo that keeps the long value
CastTo_long(type, val) == val

\* (int) val, (unsigned int) val, (short) val, (unsigned short) val, val
\* and (unsigned long) val, for the long val, by the type of the key or of
\* the array.  A cell of an unsigned kind as wide as long holds its LongBits
\* bits read as two's complement (-1 for the object whose value is
\* 2^LongBits - 1): the conversion of a long to such a kind keeps the bits.
CastTo(type, val) ==
  IF type = "integer_t" THEN CastInt(val)
  ELSE IF type = "short_t" THEN ToSigned(val, ShortBits)
  ELSE IF type = "ushort_t" THEN ToUnsigned(val, ShortBits)
  ELSE val

T_true  == Bytes(<<"t", "r", "u", "e">>)
T_false == Bytes(<<"f", "a", "l", "s", "e">>)

(***************************************************************************)
(* toml.c: target_address.  The members of the union addr are pointers    *)
(* to objects that share their storage, and every pointer to an object    *)
(* has the same representation here, so reading the pointer through any   *)
(* member yields the pointer stored.                                       *)
(***************************************************************************)
\* cursor->addr.member
AddrMember(cursor, member) == cursor.addr

\* The members of addr that the switch of target_address assigns to addr
\* for a type, in order: the case of the type and the cases it runs on
\* into until a break.
target_cases(type) ==
  IF type = "integer_t" THEN <<"integer">>
  ELSE IF type = "uinteger_t" THEN <<"uinteger">>
  ELSE IF type = "long_t" THEN <<"longint">>
  ELSE IF type = "ulong_t" THEN <<"ulongint">>
  ELSE IF type = "short_t" THEN <<"shortint">>
  ELSE IF type = "ushort_t" THEN <<"ushortint">>
  ELSE IF type = "real_t" THEN <<"real">>
  ELSE IF type = "boolean_t" THEN <<"boolean", "string">>
  ELSE IF type = "string_t" THEN <<"string">>
  ELSE <<>>

\* the same for mtoml.c
m_target_cases(type) ==
  IF type = "string_t" THEN <<"string", "integer">>
  ELSE IF type = "integer_t" THEN <<"integer">>
  ELSE IF type = "uinteger_t" THEN <<"uinteger">>
  ELSE IF type = "long_t" THEN <<"longint">>
  ELSE IF type = "ulong_t" THEN <<"ulongint">>
  ELSE IF type = "short_t" THEN <<"shortint">>
  ELSE IF type = "ushort_t" THEN <<"ushortint">>
  ELSE IF type = "boolean_t" THEN <<"boolean">>
  ELSE IF type = "real_t" THEN <<"real">>
  ELSE <<>>

\* addr after the assignments of cases, NULL before them
LastAssigned(cursor, cases) ==
  IF cases = <<>> THEN NULL ELSE AddrMember(cursor, cases[Len(cases)])

\* target_address without the element index in an array of tables
target_address_nooffset(cursor, array, offset) ==
  IF array = NoArray
  THEN IF cursor.type \in {"integer_t", "uinteger_t", "long_t", "ulong_t",
                           "short_t", "ushort_t", "real_t", "boolean_t",
                           "string_t"}
       THEN cursor.addr
       ELSE NULL
  ELSE array.base + cursor.addr

\* target_address without the offset of the field in the element
target_address_nofield(cursor, array, offset) ==
  IF array = NoArray
  THEN IF cursor.type \in {"integer_t", "uinteger_t", "long_t", "ulong_t",
                           "short_t", "ushort_t", "real_t", "boolean_t",
                           "string_t"}
       THEN cursor.addr
       ELSE NULL
  ELSE array.base + (offset * array.structsize)

target_address(cursor, array, offset) ==
  IF array = NoArray
  THEN LastAssigned(cursor, target_cases(cursor.type))
  ELSE array.base + (offset * array.structsize) + cursor.addr

IntegerKinds ==
  {"integer_t", "uinteger_t", "short_t", "ushort_t", "long_t", "ulong_t"}

\* strtol_fails without the test of errno
strtol_fails_norange(text) == strtol(text, 0).end = 1

\* the condition on errno, val and endptr tested after strtol
strtol_failed(r) ==
  \/ (r.erange /\ (r.val = LONG_MAX \/ r.val = LONG_MIN))
  \/ r.end = 1

\* the error test that follows strtol in load_array and load_key_value
strtol_fails(text) == strtol_failed(strtol(text, 0))

\* strncpy(valp, tokbuf, n): n bytes, NUL padded, no terminator when the
\* text has n or more characters
strncpy_bytes(text, n) ==
  [i \in 1..n |-> IF i <= Len(text) THEN text[i] ELSE NUL]

(***************************************************************************)
(* toml.c: load_array, load_key_value, load_inline_table.                  *)
(* Each returns [rc, x]: the return value and the parse state.             *)
(***************************************************************************)
RECURSIVE load_array_loop(_, _, _, _, _)
RECURSIVE load_key_value(_, _, _, _, _, _)
RECURSIVE load_inline_table(_, _, _, _, _)

\* load_array_end publishing the index of the last element
load_array_end_lastindex(x, array, offset) ==
  IF array.count # NULL
  THEN Ret(0, MemWrite(x, array.count,
                       <<IF offset > 0 THEN offset - 1 ELSE 0>>))
  ELSE Ret(0, x)

\* the statements after the loop of load_array
load_array_end(x, array, offset) ==
  IF array.count # NULL
  THEN Ret(0, MemWrite(x, array.count, <<offset>>))
  ELSE Ret(0, x)

\* load_array_string without the test of the space left in the store
load_array_string_nofit(x, array, offset, sp, t) ==
  [rc |-> 0,
   x |-> MemWrite(MemWrite(x, array.ptrs + offset, <<sp>>), sp,
                  t.text \o <<NUL>>),
   sp |-> sp + Len(t.text) + 1]

\* the case string_t of load_array: the element is copied to sp, where the
\* store is free, when it fits there with its terminator
load_array_string(x, array, offset, sp, t) ==
  LET x1   == MemWrite(x, array.ptrs + offset, <<sp>>)
      used == sp - array.store
      free == array.storelen - used
      len  == Len(t.text)
  IN  IF len + 1 > free
      THEN [rc |-> -1, x |-> x1, sp |-> sp]
      ELSE [rc |-> 0, x |-> MemWrite(x1, sp, t.text \o <<NUL>>),
            sp |-> sp + len + 1]

\* load_array_word taking every boolean element that is not true as false
load_array_word_nottrue(x, array, offset, sp, t) ==
  IF array.type = "boolean_t"
  THEN [rc |-> 0,
        x |-> MemWrite(x, array.booleans + offset,
                       <<IF t.text = T_true THEN 1 ELSE 0>>),
        sp |-> sp]
  ELSE [rc |-> -1, x |-> x, sp |-> sp]

\* the STRING/WORD case of an element: rc, x and the sp after it
load_array_word(x, array, offset, sp, t) ==
  IF array.type = "string_t"
  THEN load_array_string(x, array, offset, sp, t)
  ELSE IF array.type \in IntegerKinds
  THEN IF strtol_fails(t.text)
       THEN [rc |-> -1, x |-> x, sp |-> sp]
       ELSE [rc |-> 0,
             x |-> MemWrite(x, array.integers + offset,
                            <<CastTo(array.type, strtol(t.text, 0).val)>>),
             sp |-> sp]
  ELSE IF array.type = "boolean_t"
  THEN IF t.text = T_true
       THEN [rc |-> 0, x |-> MemWrite(x, array.booleans + offset, <<1>>),
             sp |-> sp]
       ELSE IF t.text = T_false
       THEN [rc |-> 0, x |-> MemWrite(x, array.booleans + offset, <<0>>),
             sp |-> sp]
       ELSE [rc |-> -1, x |-> x, sp |-> sp]
  ELSE [rc |-> -1, x |-> x, sp |-> sp]

\* x after the scan of a token of at most size characters, with the token
Token(x, t) == [t |-> t, x |-> Scanned(x, t)]

scan_from(In, x, size) == Token(x, scan(In, x.p, size))

\* the result r of an inline table as the result of an element
load_array_table(r, sp) == [rc |-> r.rc, x |-> r.x, sp |-> sp]

\* the separator s scanned after an element
load_array_sep(In, s, array, offset, sp) ==
  IF s.t.tok = RBRACKET
  THEN load_array_end(s.x, array, offset + 1)
  ELSE IF s.t.tok = COMMA
  THEN load_array_loop(In, s.x, array, offset + 1, sp)
  ELSE Ret(-1, s.x)

\* what follows the switch on the token of an element, stored being its
\* outcome
load_array_stored(In, stored, array, offset) ==
  IF stored.rc = -1
  THEN Ret(-1, stored.x)
  ELSE load_array_sep(In, scan_from(In, stored.x, TOKBUFSIZ), array, offset,
                      stored.sp)

\* one element of the array and the separator after it
load_array_elem(In, x, array, offset, sp, t) ==
  load_array_stored(
    In,
    IF t.tok \in {STRINGTOK, WORD}
    THEN load_array_word(x, array, offset, sp, t)
    ELSE IF t.tok = LBRACE
    THEN IF array.type # "table_t"
         THEN [rc |-> -1, x |-> x, sp |-> sp]
         ELSE load_array_table(
                load_inline_table(In, x, Schema[array.subtype], array,
                                  offset), sp)
    ELSE [rc |-> -1, x |-> x, sp |-> sp],
    array, offset)

\* load_array_loop with the capacity test off by one
load_array_loop_offbyone(In, x, array, offset, sp) ==
  LET t  == scan(In, x.p, TOKBUFSIZ)
      x1 == Scanned(x, t)
  IN  IF t.tok = -1 \/ t.tok = RBRACKET
      THEN load_array_end(x1, array, offset)
      ELSE IF t.tok = COMMA
      THEN Ret(-1, x1)
      ELSE IF offset > array.maxlen
      THEN Ret(-1, x1)
      ELSE load_array_elem(In, x1, array, offset, sp, t)

load_array_loop(In, x, array, offset, sp) ==
  LET t  == scan(In, x.p, TOKBUFSIZ)
      x1 == Scanned(x, t)
  IN  IF t.tok = -1 \/ t.tok = RBRACKET
      THEN load_array_end(x1, array, offset)
      ELSE IF t.tok = COMMA
      THEN Ret(-1, x1)
      ELSE IF offset >= array.maxlen
      THEN Ret(-1, x1)
      ELSE load_array_elem(In, x1, array, offset, sp, t)

\* offset = 0; sp = array->arr.strings.store
load_array(In, x, array) == load_array_loop(In, x, array, 0, array.store)

\* bind_value without the test for an unquoted value of a string key
bind_value_oneway(x, cursor, maxlen, t, array, offset) ==
  IF t.tok = STRINGTOK /\ cursor.type # "string_t" THEN Ret(-1, x)
  ELSE LET valp == target_address(cursor, array, offset) IN
    IF valp = NULL THEN Ret(0, x)
    ELSE IF cursor.type = "string_t"
    THEN LET x1 == MemWrite(x, valp, strncpy_bytes(t.text, maxlen - 1))
         IN  Ret(0, MemWrite(x1, valp + maxlen - 1, <<NUL>>))
    ELSE IF cursor.type = "integer_t" /\ ~strtol_fails(t.text)
    THEN Ret(0, MemWrite(x, valp, <<CastInt(strtol(t.text, 0).val)>>))
    ELSE Ret(-1, x)

\* the value of a key of a scalar kind: the STRING/WORD case
bind_value(x, cursor, maxlen, t, array, offset) ==
  IF t.tok = STRINGTOK /\ cursor.type # "string_t" THEN Ret(-1, x)
  ELSE IF t.tok # STRINGTOK /\ cursor.type = "string_t" THEN Ret(-1, x)
  ELSE IF cursor.type = "boolean_t" /\ t.text # T_true /\ t.text # T_false
  THEN Ret(-1, x)
  ELSE LET valp == target_address(cursor, array, offset) IN
    IF valp = NULL THEN Ret(0, x)
    ELSE IF cursor.type = "string_t"
    THEN LET x1 == MemWrite(x, valp, strncpy_bytes(t.text, maxlen - 1))
         IN  Ret(0, MemWrite(x1, valp + maxlen - 1, <<NUL>>))
    ELSE IF cursor.type \in IntegerKinds
    THEN IF strtol_fails(t.text)
         THEN Ret(-1, x)
         ELSE Ret(0, MemWrite(x, valp,
                              <<CastTo(cursor.type, strtol(t.text, 0).val)>>))
    ELSE IF cursor.type = "boolean_t"
    THEN Ret(0, MemWrite(x, valp, <<IF t.text = T_true THEN 1 ELSE 0>>))
    ELSE Ret(0, x)

load_key_value(In, x, key, keys, array, offset) ==
  LET cursor == Lookup(keys, key) IN
  IF cursor.key = NULLSTR THEN Ret(-1, x)
  ELSE
    LET maxlen == IF cursor.type = "string_t" THEN cursor.len ELSE TOKBUFSIZ
        t1 == scan(In, x.p, TOKBUFSIZ)
        x1 == Scanned(x, t1)
    IN  IF t1.tok # EQUAL THEN Ret(-1, x1)
        ELSE
          LET t2 == scan(In, x1.p, maxlen)
              x2 == Scanned(x1, t2)
          IN  IF t2.tok \in {STRINGTOK, WORD}
              THEN bind_value(x2, cursor, maxlen, t2, array, offset)
              ELSE IF t2.tok = LBRACKET
              THEN IF cursor.type # "array_t"
                   THEN Ret(-1, x2)
                   ELSE load_array(In, x2, cursor.array)
              ELSE IF t2.tok = LBRACE
              THEN IF cursor.type # "table_t"
                   THEN Ret(-1, x2)
                   ELSE load_inline_table(In, x2, Schema[cursor.keys],
                                          NoArray, 0)
              ELSE Ret(-1, x2)

\* the rest of an inline table after the key/value pair with result r
load_inline_pair(In, r, keys, array, offset) ==
  IF r.rc = -1 THEN r
  ELSE load_inline_table(In, r.x, keys, array, offset)

\* the switch on the token s.t of an inline table
load_inline_token(In, s, keys, array, offset) ==
  IF s.t.tok = -1 THEN Ret(-1, s.x)
  ELSE IF s.t.tok = RBRACE THEN Ret(0, s.x)
  ELSE IF s.t.tok = COMMA
  THEN load_inline_table(In, s.x, keys, array, offset)
  ELSE IF s.t.tok \in {STRINGTOK, WORD}
  THEN load_inline_pair(In, load_key_value(In, s.x, s.t.text, keys, array,
                                           offset),
                        keys, array, offset)
  ELSE Ret(-1, s.x)

load_inline_table(In, x, keys, array, offset) ==
  load_inline_token(In, scan_from(In, x, TOKBUFSIZ), keys, array, offset)

(***************************************************************************)
(* The pieces of input.                                                    *)
(***************************************************************************)
\* s = "aa..a" with k characters between the quotes
StrLit(k) ==
  Bytes(<<"s", "=", "\"">>) \o Rep(97, k) \o Bytes(<<"\"", "\n">>)

\* v = [1,2,1,...] with k elements
ArrLit(k) ==
  Bytes(<<"v", "=", "[">>)
    \o [i \in 1..(2 * k - 1) |->
          IF i % 2 = 0 THEN 44 ELSE IF i % 4 = 1 THEN 49 ELSE 50]
    \o Bytes(<<"]", "\n">>)

L_aot     == Bytes(<<"[", "[", "a", "]", "]", "\n">>)
L_tab     == Bytes(<<"[", "t", "]", "\n">>)
L_n1      == Bytes(<<"n", "=", "1", "\n">>)
L_n2      == Bytes(<<"n", " ", "=", " ", "2", " ", "#", "x", "\n">>)
L_btrue   == Bytes(<<"b", "=", "t", "r", "u", "e", "\n">>)
L_unknown == Bytes(<<"z", "=", "1", "\n">>)
L_nquoted == Bytes(<<"n", "=", "\"", "a", "\"", "\n">>)
L_sbare   == Bytes(<<"s", "=", "1", "\n">>)
L_inl     == Bytes(<<"t", "=", "{", "n", "=", "1", ",", "s", "=", "\"", "a",
                     "\"", "}", "\n">>)
L_inlunk  == Bytes(<<"t", "=", "{", "z", "=", "1", "}", "\n">>)
L_inlbare == Bytes(<<"t", "=", "{", "s", "=", "1", "}", "\n">>)
L_inltail == Bytes(<<"t", "=", "{", "n", "=", "2", ",", "z", "=", "1", "}",
                     "\n">>)
L_unterm  == Bytes(<<"\"", "n", "\n", "n", "=", "1", "\n">>)
L_toolong == Rep(97, TOKBUFSIZ) \o Bytes(<<"=", "1", "\n">>)
L_valunterm == Bytes(<<"n", "=", "\"", "a">>)
L_tabunk  == Bytes(<<"[", "z", "]", "\n">>)
L_tabkind == Bytes(<<"[", "n", "]", "\n">>)
L_noequal == Bytes(<<"n", " ", "1", "\n">>)
L_stray   == Bytes(<<"=", "1", "\n">>)
L_arrunterm == Bytes(<<"v", "=", "[", "1", ",", "\"", "a", "\n">>)

Lines ==
  { L_aot, L_tab, L_n1, L_n2, L_btrue, L_unknown, L_nquoted, L_sbare,
    L_inl, L_inlunk, L_inlbare, L_inltail, L_unterm, L_toolong, L_valunterm,
    L_tabunk, L_tabkind, L_noequal, L_stray, L_arrunterm,
    StrLit(SLen - 2), StrLit(SLen - 1), StrLit(SLen),
    ArrLit(VCap), ArrLit(VCap + 1), ArrLit(1) }

\* a = [{n=1},{n=2},{n=1},...] with k elements
AotLit(k) ==
  Bytes(<<"a", "=", "[">>)
    \o [i \in 1..(6 * k - 1) |->
          IF i % 6 = 1 THEN 123 ELSE IF i % 6 = 2 THEN 110
          ELSE IF i % 6 = 3 THEN 61
          ELSE IF i % 6 = 4 THEN (IF i % 12 = 4 THEN 49 ELSE 50)
          ELSE IF i % 6 = 5 THEN 125 ELSE 44]
    \o Bytes(<<"]", "\n">>)

L_tscalar   == Bytes(<<"t", "=", "5", "\n">>)
L_vscalar   == Bytes(<<"v", "=", "5", "\n">>)
L_tquoted   == Bytes(<<"t", "=", "\"", "x", "\"", "\n">>)
L_narr      == Bytes(<<"n", "=", "[", "1", "]", "\n">>)
L_sinl      == Bytes(<<"s", "=", "{", "n", "=", "1", "}", "\n">>)
L_tarr      == Bytes(<<"t", "=", "[", "1", "]", "\n">>)
L_vinl      == Bytes(<<"v", "=", "{", "n", "=", "1", "}", "\n">>)
L_arrquoted == Bytes(<<"v", "=", "[", "\"", "1", "\"", ",", "2", "]", "\n">>)
L_warrbare  == Bytes(<<"w", "=", "[", "a", "b", "]", "\n">>)
L_warr      == Bytes(<<"w", "=", "[", "\"", "a", "\"", ",", "\"", "b", "\"",
                       "]", "\n">>)
L_warrmixed == Bytes(<<"w", "=", "[", "\"", "a", "\"", ",", "b", "]", "\n">>)
L_farr      == Bytes(<<"f", "=", "[", "t", "r", "u", "e", ",", "f", "a", "l",
                       "s", "e", "]", "\n">>)
L_farrbad   == Bytes(<<"f", "=", "[", "t", "r", "u", "e", ",", "x", "]",
                       "\n">>)
L_farrquoted == Bytes(<<"f", "=", "[", "\"", "t", "r", "u", "e", "\"", "]",
                        "\n">>)
L_twoexpr   == Bytes(<<"n", "=", "1", " ", "b", "=", "t", "r", "u", "e",
                       "\n">>)
L_hdrkv     == Bytes(<<"[", "t", "]", " ", "n", "=", "1", "\n">>)
L_bfalse    == Bytes(<<"b", "=", "f", "a", "l", "s", "e", "\n">>)
L_bTrue     == Bytes(<<"b", "=", "T", "r", "u", "e", "\n">>)
L_bone      == Bytes(<<"b", "=", "1", "\n">>)
L_btruex    == Bytes(<<"b", "=", "t", "r", "u", "e", "x", "\n">>)

\* key/values that try every kind of value on every kind of key
KindLines ==
  { L_tscalar, L_vscalar, L_tquoted, L_narr, L_sinl, L_tarr, L_vinl,
    L_arrquoted, L_warrbare, L_warr, L_warrmixed, L_farr, L_farrbad,
    L_farrquoted, L_twoexpr, L_hdrkv, L_btrue, L_bfalse, L_bTrue, L_bone,
    L_btruex, L_inl, L_n1 }

\* the file ends here: no newline at the end of these
L_arropen   == Bytes(<<"v", "=", "[">>)
L_arrcomma  == Bytes(<<"v", "=", "[", "1", ",">>)
L_arrelem   == Bytes(<<"v", "=", "[", "1">>)
L_inlopen   == Bytes(<<"t", "=", "{">>)
L_inlcomma  == Bytes(<<"t", "=", "{", "n", "=", "1", ",">>)
L_inlelem   == Bytes(<<"t", "=", "{", "n", "=", "1">>)
L_arrempty  == Bytes(<<"v", "=", "[", "]", "\n">>)
L_arrtrail  == Bytes(<<"v", "=", "[", "1", ",", "]", "\n">>)
L_farrempty == Bytes(<<"f", "=", "[", "]", "\n">>)
L_warrlong  == Bytes(<<"w", "=", "[", "\"", "a", "a", "\"", ",", "\"", "b",
                       "\"", "]", "\n">>)
\* the first element fills the store, none of it is left for the second
L_warrfull  == Bytes(<<"w", "=", "[", "\"", "a", "a", "a", "\"", ",", "\"",
                       "b", "\"", "]", "\n">>)
\* an element longer than the store
L_warrover  == Bytes(<<"w", "=", "[", "\"", "a", "a", "a", "a", "\"", "]",
                       "\n">>)

\* array values and inline tables, whole and cut short
ArrayLines ==
  { L_arropen, L_arrcomma, L_arrelem, L_inlopen, L_inlcomma, L_inlelem,
    L_arrempty, L_arrtrail, L_farrempty, L_farr, L_warr, L_warrlong,
    L_warrfull, L_warrover,
    L_arrunterm, L_aot, L_n1, L_tab,
    ArrLit(1), ArrLit(VCap), ArrLit(VCap + 1),
    AotLit(1), AotLit(ACap), AotLit(ACap + 1) }

L_hex     == Bytes(<<"n", "=", "0", "x", "F", "F", "\n">>)
L_oct     == Bytes(<<"n", "=", "0", "o", "1", "7", "\n">>)
L_bin     == Bytes(<<"n", "=", "0", "b", "1", "0", "1", "\n">>)
L_dec     == Bytes(<<"n", "=", "2", "5", "5", "\n">>)
L_neg     == Bytes(<<"n", "=", "-", "1", "7", "\n">>)
L_lmax    == Bytes(<<"l", "=", "2", "1", "4", "7", "4", "8", "3", "6", "4",
                     "7", "\n">>)
L_lmin    == Bytes(<<"l", "=", "-", "2", "1", "4", "7", "4", "8", "3", "6",
                     "4", "8", "\n">>)
L_lover   == Bytes(<<"l", "=", "2", "1", "4", "7", "4", "8", "3", "6", "4",
                     "8", "\n">>)
L_lunder  == Bytes(<<"l", "=", "-", "2", "1", "4", "7", "4", "8", "3", "6",
                     "4", "9", "\n">>)
L_lhuge   == Bytes(<<"l", "=", "9", "9", "9", "9", "9", "9", "9", "9", "9",
                     "9", "9", "\n">>)
L_lplus   == Bytes(<<"l", "=", "+", "4", "2", "\n">>)
L_lzero   == Bytes(<<"l", "=", "0", "\n">>)
L_lshort  == Bytes(<<"l", "=", "9", "9", "9", "9", "9", "9", "9", "9", "9",
                     "\n">>)

L_junk    == Bytes(<<"n", "=", "1", "2", "a", "b", "c", "\n">>)
L_unders  == Bytes(<<"n", "=", "5", "_", "3", "4", "9", "_", "2", "2", "1",
                     "\n">>)
L_arrjunk == Bytes(<<"v", "=", "[", "7", ",", "1", "2", "a", "b", "c", "]",
                     "\n">>)

\* integers for the keys of the kinds narrower than long, and unsigned
NarrowLines ==
  { Bytes(<<"h", "=", "7", "0", "0", "0", "0", "\n">>),
    Bytes(<<"h", "=", "-", "4", "0", "0", "0", "0", "\n">>),
    Bytes(<<"h", "=", "3", "2", "7", "6", "8", "\n">>),
    Bytes(<<"h", "=", "-", "5", "\n">>),
    Bytes(<<"u", "=", "-", "1", "\n">>),
    Bytes(<<"u", "=", "6", "5", "5", "3", "6", "\n">>),
    Bytes(<<"u", "=", "4", "2", "\n">>),
    Bytes(<<"i", "=", "-", "1", "\n">>),
    Bytes(<<"i", "=", "2", "1", "4", "7", "4", "8", "3", "6", "4", "7",
            "\n">>),
    Bytes(<<"n", "=", "-", "2", "1", "4", "7", "4", "8", "3", "6", "4", "8",
            "\n">>),
    Bytes(<<"q", "=", "[", "7", "0", "0", "0", "0", ",", "-", "1", "]",
            "\n">>),
    Bytes(<<"u", "=", "9", "9", "9", "9", "9", "9", "9", "9", "9", "9", "9",
            "\n">>) }

\* integer literals, and tokens that start like one
IntLines ==
  { L_hex, L_oct, L_bin, L_dec, L_neg, L_lmax, L_lmin, L_lover, L_lunder,
    L_lhuge, L_lplus, L_lzero, L_lshort, L_tab, L_junk, L_unders, L_arrjunk }

L_eot == Bytes(<<"[", "[", "e", "]", "]", "\n">>)

\* headers of two arrays of tables and of a table, and key/values
HeaderLines == {L_aot, L_eot, L_tab, L_n1, L_n2}

\* g = "aa...a" with k characters
GLit(k) ==
  Bytes(<<"g", "=", "\"">>) \o Rep(97, k) \o Bytes(<<"\"", "\n">>)

\* values for g that fill the token buffer of toml.c, or all but one byte
LongLines == {GLit(TOKBUFSIZ), GLit(TOKBUFSIZ - 1), L_n1}

\* A file is made of pieces of one suite.
Suites == {"base", "kinds", "arrays", "ints", "headers", "long", "narrow"}

LinesOf(su) ==
  IF su = "base" THEN Lines
  ELSE IF su = "headers" THEN HeaderLines
  ELSE IF su = "long" THEN LongLines
  ELSE IF su = "kinds" THEN KindLines
  ELSE IF su = "arrays" THEN ArrayLines
  ELSE IF su = "narrow" THEN NarrowLines
  ELSE IntLines

\* the number of pieces of a file of a suite
MaxLinesOf(su) ==
  IF su \in {"base", "headers"} THEN MaxLines ELSE MaxLines - 2

\* what the caller may have left in its memory before the call
Fills == {NUL, 63}

\* the memory of the caller of a suite
AddrsOf(su) == IF su = "long" THEN 1..(MemSize + GLen) ELSE Addrs

(***************************************************************************)
(* lex.h, lex.c: the lexer.  A lexer is the record                         *)
(*   [input, ptr, atEOF, item, pos, lineno, hi]                            *)
(* input is the text without its terminator, ptr an index into it from 1   *)
(* (Len(input) + 1 is the terminator), item the record [type, val] with    *)
(* val the string held by the array item.val, hi the number of bytes of    *)
(* item.val, from its start, that the last lex_scan_next stored.  A        *)
(* function that returns a value and changes the lexer yields a record     *)
(* with the value and the field lex.                                       *)
(***************************************************************************)
lex_eof            == -1
lex_ERROR          == 0
lex_LEFT_BRACKETS  == 1
lex_RIGHT_BRACKETS == 2
lex_BARE_KEY       == 3
lex_NEWLINE        == 4
lex_STRING         == 5
lex_INTEGER        == 6
lex_FLOAT          == 7
lex_BOOL           == 8
lex_TIME           == 9

ITEMSIZ == 1024

\* <ctype.h> in the C locale
isdigit(c)  == c >= 48 /\ c <= 57
isalpha(c)  == (c >= 65 /\ c <= 90) \/ (c >= 97 /\ c <= 122)
isalnum(c)  == isdigit(c) \/ isalpha(c)
isxdigit(c) == isdigit(c) \/ (c >= 65 /\ c <= 70) \/ (c >= 97 /\ c <= 102)

Digits    == 48..57
XDigits   == Digits \cup (65..70) \cup (97..102)
OctDigits == 48..55
BinDigits == {48, 49}
IdentChars == Digits \cup (65..90) \cup (97..122) \cup {95, 45}
\* "0123456789eE+-._"
FloatChars == Digits \cup {101, 69, 43, 45, 46, 95}
\* "0123456789+-.tT: Zz"
TimeChars == Digits \cup {43, 45, 46, 116, 84, 58, 32, 90, 122}

\* *lex->ptr
Cur(lex) == IF lex.ptr <= Len(lex.input) THEN lex.input[lex.ptr] ELSE NUL

lex_next(lex) ==
  IF Cur(lex) = NUL
  THEN [c |-> lex_eof, lex |-> [lex EXCEPT !.atEOF = TRUE]]
  ELSE [c |-> Cur(lex),
        lex |-> [lex EXCEPT !.lineno = IF Cur(lex) = 10 THEN @ + 1 ELSE @,
                            !.ptr = @ + 1]]

\* the test of '\n' reads *lex->ptr, the character after the one that is
\* given back
lex_backup(lex) ==
  IF lex.atEOF THEN [lex EXCEPT !.atEOF = FALSE]
  ELSE IF lex.ptr > 1
  THEN [lex EXCEPT !.lineno = IF Cur(lex) = 10 THEN @ - 1 ELSE @,
                   !.ptr = @ - 1]
  ELSE lex

lex_peek(lex) ==
  [c |-> lex_next(lex).c, lex |-> lex_backup(lex_next(lex).lex)]

\* valid is the set of the characters of the string valid
lex_accept(lex, valid) ==
  LET r == lex_next(lex) IN
    IF r.c \in valid THEN [ok |-> TRUE, c |-> r.c, lex |-> r.lex]
    ELSE [ok |-> FALSE, c |-> r.c, lex |-> lex_backup(r.lex)]

lex_endofline(lex, c) ==
  IF c = 13
  THEN LET r == lex_next(lex) IN
         [eol |-> TRUE,
          lex |-> IF r.c # 10 /\ r.c # lex_eof THEN lex_backup(r.lex)
                  ELSE r.lex]
  ELSE [eol |-> (c = 10), lex |-> lex]

\* the messages of lex_errorf
MsgNewline  == Bytes(<<"s", "a", "w", " ", "'", "\\", "n", "'", " ", "b", "e",
                       "f", "o", "r", "e", " ", "'", "\"", "'">>)
MsgEof      == Bytes(<<"s", "a", "w", " ", "e", "o", "f", " ", "b", "e", "f",
                       "o", "r", "e", " ", "'", "\"", "'">>)
MsgEofMl    == Bytes(<<"s", "a", "w", " ", "e", "o", "f", " ", "b", "e", "f",
                       "o", "r", "e", " ", "\"", "\"", "\"">>)
MsgQuotes   == Bytes(<<"t", "o", "o", " ", "m", "a", "n", "y", " ", "d", "o",
                       "u", "b", "l", "e", " ", "q", "u", "o", "t", "e", "s",
                       " ", "a", "t", " ", "t", "h", "e", " ", "e", "n", "d",
                       " ", "o", "f", " ", "m", "u", "l", "t", "i", "l", "i",
                       "n", "e", " ", "s", "t", "r", "i", "n", "g">>)
MsgEscape(c) ==
  Bytes(<<"i", "n", "v", "a", "l", "i", "d", " ", "e", "s", "c", "a", "p",
          "e", " ", "s", "e", "q", "u", "e", "n", "c", "e", " ", "'">>)
    \o <<c % 256, 39>>
MsgFloat    == Bytes(<<"i", "n", "v", "a", "l", "i", "d", " ", "f", "l", "o",
                       "a", "t">>)
MsgDot      == Bytes(<<"f", "l", "o", "a", "t", "s", " ", "c", "a", "n", "n",
                       "o", "t", " ", "s", "t", "a", "r", "t", " ", "w", "i",
                       "t", "h", " ", "a", " ", "'", ".", "'">>)
MsgSign     == Bytes(<<"c", "a", "n", "n", "o", "t", " ", "u", "s", "e", " ",
                       "s", "i", "g", "n", " ", "w", "i", "t", "h", " ", "n",
                       "o", "n", "-", "d", "e", "c", "i", "m", "a", "l", " ",
                       "n", "u", "m", "b", "e", "r", "s">>)
\* %x of a character
HexDigit(d) == IF d < 10 THEN 48 + d ELSE 87 + d
Hex(c) ==
  IF c < 16 THEN <<HexDigit(c)>>
  ELSE <<HexDigit(c \div 16), HexDigit(c % 16)>>
MsgChar(c) ==
  Bytes(<<"u", "n", "e", "x", "p", "e", "c", "t", "e", "d", " ", "c", "h",
          "a", "r", "a", "c", "t", "e", "r", " ">>)
    \o <<c, 32, 40>> \o Hex(c) \o <<41>>

\* p has stored k bytes of lex->item.val
Stored(lex, k) == [lex EXCEPT !.hi = IF k > @ THEN k ELSE @]

\* vsnprintf stores at most sizeof(lex->item.val) bytes
lex_errorf(lex, msg) ==
  [ret |-> lex_ERROR,
   lex |-> [Stored(lex, IF Len(msg) < ITEMSIZ THEN Len(msg) + 1 ELSE ITEMSIZ)
              EXCEPT !.item = [type |-> lex_ERROR, val |-> msg]]]

\* *p = '\0'; return lex->item.type = type;  with val the characters stored
\* through p
Item(lex, type, val) ==
  [ret |-> type,
   lex |-> [Stored(lex, Len(val) + 1)
              EXCEPT !.item = [type |-> type, val |-> val]]]

\* The loops that call lex_next until it yields a character that ends
\* them.  RunEnd is the index of that character (Len(input) + 1 at the end
\* of the text): the first from ptr on that is not in go.
RunEnd(lex, go) ==
  CHOOSE i \in lex.ptr..(Len(lex.input) + 1) :
    /\ (i = Len(lex.input) + 1 \/ lex.input[i] \notin go)
    /\ \A j \in lex.ptr..(i - 1) : lex.input[j] \in go

\* lex after the calls of lex_next that yielded the characters before e
LoopNext(lex, e) ==
  [lex EXCEPT !.ptr = e,
              !.lineno = @ + Cardinality({j \in lex.ptr..(e - 1) :
                                            lex.input[j] = 10})]

\* the loop that ends at e; it stored the characters in chars
LoopTo(lex, val, chars, e) ==
  [lex |-> lex_next(LoopNext(lex, e)).lex,
   val |-> val \o SelectSeq(SubSeq(lex.input, lex.ptr, e - 1),
                            LAMBDA c : c \in chars),
   c |-> lex_next(LoopNext(lex, e)).c]

\* while ((c = lex_next(lex)) is in chars or in skip)
\*   if (c is not in skip) *p++ = c;
\* Yields lex, val and the c that ended the loop.
take_while(lex, val, chars, skip) ==
  LoopTo(lex, val, chars, RunEnd(lex, chars \cup skip))

\* for (; (c = lex_next(lex)) is not in stops; p++) *p = c;
take_until(lex, val, stops) ==
  LoopTo(lex, val, 0..255, RunEnd(lex, (1..255) \ stops))

\* while (lex_accept(lex, valid, &c)) if (c is not in skip) *p++ = c;
RECURSIVE accept_while(_, _, _, _)
accept_while(lex, val, valid, skip) ==
  LET a == lex_accept(lex, valid) IN
    IF a.ok
    THEN accept_while(a.lex, IF a.c \in skip THEN val ELSE Append(val, a.c),
                      valid, skip)
    ELSE [lex |-> a.lex, val |-> val]

\* lex_scan_decimal_number keeping the underscores
lex_scan_decimal_number_keep(lex) ==
  LET a == lex_accept(lex, {43, 45})
      d == take_while(a.lex, IF a.ok THEN <<a.c>> ELSE <<>>, Digits, {})
  IN  IF d.c \in {46, 101, 69}
      THEN LET f == accept_while(d.lex, Append(d.val, d.c), FloatChars, {95})
           IN  Item(f.lex, lex_FLOAT, f.val)
      ELSE LET e == take_while(lex_backup(d.lex), d.val,
                               Digits \cup {95}, {})
           IN  Item(lex_backup(e.lex), lex_INTEGER, e.val)

lex_scan_decimal_number(lex) ==
  LET a == lex_accept(lex, {43, 45})
      d == take_while(a.lex, IF a.ok THEN <<a.c>> ELSE <<>>, Digits, {})
  IN  IF d.c \in {46, 101, 69}
      THEN LET f == accept_while(d.lex, Append(d.val, d.c), FloatChars, {95})
           IN  Item(f.lex, lex_FLOAT, f.val)
      ELSE LET e == take_while(lex_backup(d.lex), d.val, Digits, {95})
           IN  Item(lex_backup(e.lex), lex_INTEGER, e.val)

\* lex_scan_number_or_date from its first for loop on
number_or_date_rest(lex, val) ==
  LET d == take_while(lex, val, Digits, {}) IN
    IF d.c \in {46, 101, 69}
    THEN LET f == accept_while(d.lex, Append(d.val, d.c), FloatChars, {95})
         IN  Item(f.lex, lex_FLOAT, f.val)
    ELSE IF d.c = 95
    THEN LET e == take_while(d.lex, d.val, Digits, {95})
         IN  Item(lex_backup(e.lex), lex_INTEGER, e.val)
    ELSE IF d.c \in {45, 58}
    THEN LET t == accept_while(d.lex, Append(d.val, d.c), TimeChars, {})
         IN  Item(t.lex, lex_TIME, t.val)
    ELSE Item(lex_backup(d.lex), lex_INTEGER, d.val)

lex_scan_number_or_date(lex) ==
  LET pk == lex_peek(lex) IN
    IF pk.c = 48
    THEN LET n0 == lex_next(pk.lex)
             n1 == lex_next(n0.lex)
         IN  IF n1.c = 120
             THEN LET h == take_while(n1.lex, <<n0.c, n1.c>>, XDigits, {95})
                  IN  Item(h.lex, lex_INTEGER, h.val)
             ELSE IF n1.c = 111
             THEN LET o == take_while(n1.lex, <<n0.c, n1.c>>, OctDigits, {95})
                  IN  Item(o.lex, lex_INTEGER, o.val)
             ELSE IF n1.c = 98
             THEN LET b == take_while(n1.lex, <<n0.c, n1.c>>, BinDigits, {95})
                  IN  Item(b.lex, lex_INTEGER, b.val)
             ELSE number_or_date_rest(lex_backup(n1.lex), <<n0.c>>)
    ELSE number_or_date_rest(pk.lex, <<>>)

lex_scan_literal_string(lex) ==
  LET s == take_until(lex, <<>>, {lex_eof, 39, 13, 10}) IN
    IF s.c = 39 THEN Item(s.lex, lex_STRING, s.val)
    ELSE IF s.c \in {13, 10}
    THEN lex_errorf(Stored(s.lex, Len(s.val) + 1), MsgNewline)
    ELSE lex_errorf(Stored(s.lex, Len(s.val) + 1), MsgEof)

\* lex_scan_ml_literal_string that gives the opening quotes back
lex_scan_ml_literal_string_back(lex) ==
  [ret |-> lex_STRING, lex |-> lex_backup(lex_backup(lex_backup(lex)))]

\* returns lex_STRING and leaves the item as it is
lex_scan_ml_literal_string(lex) == [ret |-> lex_STRING, lex |-> lex]

\* yields c, the character or lex_ERROR, and lex
lex_escape(lex) ==
  LET r == lex_next(lex) IN
    IF r.c = 98 THEN [c |-> 8, lex |-> r.lex]
    ELSE IF r.c = 102 THEN [c |-> 12, lex |-> r.lex]
    ELSE IF r.c = 110 THEN [c |-> 10, lex |-> r.lex]
    ELSE IF r.c = 114 THEN [c |-> 13, lex |-> r.lex]
    ELSE IF r.c = 116 THEN [c |-> 9, lex |-> r.lex]
    ELSE IF r.c \in {34, 92} THEN [c |-> r.c, lex |-> r.lex]
    ELSE [c |-> lex_ERROR, lex |-> lex_errorf(r.lex, MsgEscape(r.c)).lex]

\* the for loop of lex_scan_string; err when lex_escape returned lex_ERROR
RECURSIVE scan_string_loop(_, _)
scan_string_loop(lex, val) ==
  LET r == lex_next(lex) IN
    IF r.c \in {lex_eof, 34, 13, 10}
    THEN [lex |-> r.lex, val |-> val, c |-> r.c, err |-> FALSE]
    ELSE IF r.c = 92
    THEN LET e == lex_escape(r.lex) IN
           IF e.c = lex_ERROR
           THEN [lex |-> Stored(e.lex, Len(val)), val |-> val, c |-> e.c,
                 err |-> TRUE]
           ELSE scan_string_loop(e.lex, Append(val, e.c))
    ELSE scan_string_loop(r.lex, Append(val, r.c))

lex_scan_string(lex) ==
  LET s == scan_string_loop(lex, <<>>) IN
    IF s.err THEN [ret |-> lex_ERROR, lex |-> s.lex]
    ELSE IF s.c = 34 THEN Item(s.lex, lex_STRING, s.val)
    ELSE IF s.c \in {13, 10}
    THEN lex_errorf(Stored(s.lex, Len(s.val) + 1), MsgNewline)
    ELSE lex_errorf(Stored(s.lex, Len(s.val) + 1), MsgEof)

\* for (n = 0; (c = lex_next(lex)) == '"'; n++) ;
RECURSIVE count_quotes(_, _)
count_quotes(lex, n) ==
  LET r == lex_next(lex) IN
    IF r.c = 34 THEN count_quotes(r.lex, n + 1)
    ELSE [lex |-> r.lex, n |-> n, c |-> r.c]

RECURSIVE scan_ml_string_loop(_, _)

\* scan_ml_string_loop that drops the quotes before the closing ones
scan_ml_string_loop_drop(lex, val) ==
  LET q  == count_quotes(lex, 0)
      v1 == val \o Rep(34, q.n)
  IN  IF q.n \in {3, 4, 5}
      THEN Item(lex_backup(q.lex), lex_STRING, val)
      ELSE IF q.c = lex_eof
      THEN lex_errorf(Stored(q.lex, Len(val)), MsgEofMl)
      ELSE IF q.n > 5 THEN lex_errorf(Stored(q.lex, Len(val)), MsgQuotes)
      ELSE scan_ml_string_loop(q.lex, Append(v1, q.c))

\* the for (;;) loop of lex_scan_ml_string
scan_ml_string_loop(lex, val) ==
  LET q  == count_quotes(lex, 0)
      v1 == val \o Rep(34, q.n)
      pk == lex_peek(q.lex)
  IN  IF q.n \in {3, 4, 5}
      THEN Item(lex_backup(q.lex), lex_STRING, val \o Rep(34, q.n - 3))
      ELSE IF q.c = lex_eof
      THEN lex_errorf(Stored(q.lex, Len(val)), MsgEofMl)
      ELSE IF q.n > 5 THEN lex_errorf(Stored(q.lex, Len(val)), MsgQuotes)
      ELSE IF q.c = 92
      THEN IF isspace(pk.c)
           THEN LET w == take_while(pk.lex, <<>>, {}, {32, 9, 10, 11, 12, 13})
                IN  scan_ml_string_loop(lex_backup(w.lex), v1)
           ELSE LET e == lex_escape(pk.lex) IN
                  IF e.c = lex_ERROR
                  THEN [ret |-> lex_ERROR, lex |-> Stored(e.lex, Len(v1))]
                  ELSE scan_ml_string_loop(e.lex, Append(v1, e.c))
      ELSE scan_ml_string_loop(q.lex, Append(v1, q.c))

lex_scan_ml_string(lex) ==
  LET r == lex_next(lex)
      e == lex_endofline(r.lex, r.c)
  IN  scan_ml_string_loop(IF e.eol THEN e.lex ELSE lex_backup(e.lex), <<>>)

T_inf  == Bytes(<<"i", "n", "f">>)
T_nan  == Bytes(<<"n", "a", "n">>)

lex_scan_identifier(lex) ==
  LET s == take_while(lex, <<>>, IdentChars, {})
      l == lex_backup(s.lex)
  IN  IF s.val \in {T_true, T_false} THEN Item(l, lex_BOOL, s.val)
      ELSE IF s.val \in {T_inf, <<45>> \o T_inf, T_nan, <<45>> \o T_nan}
      THEN Item(l, lex_FLOAT, s.val)
      ELSE Item(l, lex_BARE_KEY, s.val)

\* the item of a lexer that lex_init has just set up: lex_init leaves it
\* as it finds it
ItemFills == {[type |-> lex_ERROR, val |-> <<>>], [type |-> 63, val |-> <<63>>]}

lex_init(item, input) ==
  [input |-> input, ptr |-> 1, pos |-> 1, lineno |-> 1, atEOF |-> FALSE,
   item |-> item, hi |-> 0]

\* the do ... while of lex_scan_next that ignores comments; yields the c
\* that ended the last comment
RECURSIVE skip_comments(_)
skip_comments(lex) ==
  LET t  == take_until(lex, <<>>, {lex_eof, 13, 10})
      pk == lex_peek(t.lex)
  IN  IF pk.c = 35 THEN skip_comments(pk.lex)
      ELSE [lex |-> pk.lex, c |-> t.c]

\* lex_scan_next from the test of '+' and '-' on; c was read last
scan_next_sign(lex, c) ==
  LET n1 == lex_next(lex)
      n2 == lex_next(n1.lex)
      n3 == lex_next(n2.lex)
      p3 == lex_peek(n3.lex)
      p1 == lex_peek(n1.lex)
      l0 == IF n1.c = 48 THEN p1.lex ELSE n1.lex
  IN  IF n1.c = 105
      THEN IF n2.c # 110 THEN lex_errorf(n2.lex, MsgFloat)
           ELSE IF n3.c # 102 THEN lex_errorf(n3.lex, MsgFloat)
           ELSE IF p3.c \notin {lex_eof, 13, 10, 32}
           THEN lex_errorf(p3.lex, MsgFloat)
           ELSE Item(p3.lex, lex_FLOAT, <<c>> \o T_inf)
      ELSE IF n1.c = 110
      THEN IF n2.c # 97 THEN lex_errorf(n2.lex, MsgFloat)
           ELSE IF n3.c # 110 THEN lex_errorf(n3.lex, MsgFloat)
           ELSE IF p3.c \notin {lex_eof, 13, 10, 32}
           THEN lex_errorf(p3.lex, MsgFloat)
           ELSE Item(p3.lex, lex_FLOAT, <<c>> \o T_nan)
      ELSE IF n1.c = 46 THEN lex_errorf(n1.lex, MsgDot)
      ELSE IF n1.c = 48 /\ p1.c \in {120, 111, 98}
      THEN lex_errorf(p1.lex, MsgSign)
      ELSE lex_scan_decimal_number(lex_backup(lex_backup(l0)))

\* lex_scan_next from the test of '"' on; c was read last
scan_next_value(lex, c) ==
  LET n1 == lex_next(lex)
      n2 == lex_next(n1.lex)
      pk == lex_peek(lex)
  IN  IF c = 34
      THEN IF n1.c = 34
           THEN IF n2.c = 34 THEN lex_scan_ml_string(n2.lex)
                ELSE Item(lex_backup(n2.lex), lex_STRING, <<>>)
           ELSE lex_scan_string(lex_backup(n1.lex))
      ELSE IF c = 39
      THEN IF n1.c = 39
           THEN IF n2.c = 39 THEN lex_scan_ml_literal_string(n2.lex)
                ELSE Item(lex_backup(n2.lex), lex_STRING, <<>>)
           ELSE lex_scan_literal_string(lex_backup(n1.lex))
      ELSE IF c = 45 /\ (isalpha(pk.c) \/ pk.c = 45 \/ pk.c = 95)
      THEN lex_scan_identifier(lex_backup(pk.lex))
      ELSE IF c \in {43, 45}
      THEN scan_next_sign(IF c = 45 THEN pk.lex ELSE lex, c)
      ELSE IF isdigit(c) THEN lex_scan_number_or_date(lex_backup(lex))
      ELSE IF isalpha(c) \/ c = 95 THEN lex_scan_identifier(lex_backup(lex))
      ELSE lex_errorf(lex, MsgChar(c))

lex_scan_next(lex) ==
  LET b  == take_while([lex EXCEPT !.hi = 0], <<>>, {}, {32, 9})
      k  == IF b.c = 35 THEN skip_comments(b.lex)
            ELSE [lex |-> b.lex, c |-> b.c]
      e  == lex_endofline(k.lex, k.c)
      n1 == lex_next(e.lex)
  IN  IF k.c = lex_eof THEN Item(k.lex, lex_eof, <<>>)
      ELSE IF e.eol THEN Item(e.lex, lex_NEWLINE, <<>>)
      ELSE IF k.c = 91
      THEN IF n1.c = 91 THEN Item(n1.lex, lex_LEFT_BRACKETS, <<91, 91>>)
           ELSE Item(lex_backup(n1.lex), 91, <<91>>)
      ELSE IF k.c = 93
      THEN IF n1.c = 93 THEN Item(n1.lex, lex_RIGHT_BRACKETS, <<93, 93>>)
           ELSE Item(lex_backup(n1.lex), 93, <<93>>)
      ELSE IF k.c \in {61, 123, 125, 44, 46} THEN Item(e.lex, k.c, <<k.c>>)
      ELSE scan_next_value(e.lex, k.c)

(***************************************************************************)
(* State.                                                                  *)
(*   buf      the part of the file fed so far that is still unread        *)
(*   eof      the end-of-file indicator of the stream                      *)
(*   nfed     number of pieces fed so far                                  *)
(*   mem      caller memory                                                *)
(*   curtab, array, offset, curkey   the locals of toml_load               *)
(*   pc       "loop" while toml_load runs, "done" once it has returned     *)
(*   ret      its return value                                             *)
(* History of the last iteration:                                          *)
(*   act      the case of the switch it took                                *)
(*   inp      the unread input it started from                             *)
(*   wlog     the writes to caller memory it made, in order                *)
(*   pre      mem, the locals, lexerr and buf before it                    *)
(* History of the call:                                                    *)
(*   mem0     caller memory at the call                                    *)
(*   hdrs     the headers accepted so far, each <<"[[" or "[", name>>      *)
(*   named    the cells of the destinations that the expressions read so   *)
(*            far name (see Addressed)                                     *)
(*   tokhi    the largest number of bytes that a scan of the last          *)
(*            iteration wrote to its token buffer                          *)
(*   lexerr   a scan of the call ended in a lexical error                  *)
(*   suite    the suite the pieces of the file are taken from              *)
(*   isoc23   declared with strtol                                        *)
(* The lexer of lex.c, which toml_load does not use:                       *)
(*   lexer    the struct lexer                                             *)
(*   lexcall  history of the last call of lex_scan_next: n the number of   *)
(*            calls so far, from the ptr before it, ret what it returned,  *)
(*            errd: a call before it returned lex_ERROR, eofs the number   *)
(*            of calls so far that returned lex_eof                        *)
(* Two calls of toml_load that run at the same time:                       *)
(*   calls    st[i] the automatic variables and the stream of call i (buf, *)
(*            eof, loc, pc, ret, with the history w of its writes, n of    *)
(*            its iterations and cut: the other call made a step between   *)
(*            two of its iterations), mem the memory both write to, doc    *)
(*            the text each was given, fill what the memory held before    *)
(***************************************************************************)
VARIABLES buf, eof, nfed, mem, curtab, array, offset, curkey, pc, ret,
          act, inp, wlog, pre, mem0, hdrs, named, lexerr, suite, tokhi,
          lexer, lexcall, calls

loadvars == <<buf, eof, nfed, mem, curtab, array, offset, curkey, pc, ret,
              act, inp, wlog, pre, mem0, hdrs, named, lexerr, suite, isoc23,
              tokhi>>

vars == <<loadvars, lexer, lexcall, calls>>

Locals == [curtab |-> curtab, array |-> array, offset |-> offset,
           curkey |-> curkey]

\* a lexer that no text was given to
LexIdle == lex_init([type |-> lex_ERROR, val |-> <<>>], <<>>)

NoCall == [n |-> 0, from |-> 1, ret |-> lex_ERROR, errd |-> FALSE, eofs |-> 0]

\* no call of the two has been made
NoCalls == [st |-> <<>>, mem |-> <<>>, doc |-> <<>>, fill |-> NUL]

\* the state at the call of toml_load
InitLoad ==
  /\ suite \in Suites
  /\ buf = <<>>
  /\ eof = FALSE
  /\ nfed = 0
  /\ \E fill \in Fills : mem = [a \in AddrsOf(suite) |-> fill]
  /\ tokhi = 0
  /\ curtab = "root"
  /\ array = NoArray
  /\ offset = 0
  /\ curkey = NULLSTR
  /\ pc = "loop"
  /\ ret = 0
  /\ act = "none"
  /\ inp = <<>>
  /\ wlog = <<>>
  /\ pre = [mem |-> mem, loc |-> Locals, lexerr |-> FALSE, buf |-> <<>>]
  /\ mem0 = mem
  /\ hdrs = <<>>
  /\ named = {}
  /\ lexerr = FALSE
  /\ isoc23 \in (IF suite = "ints" THEN BOOLEAN ELSE {FALSE})

Init == InitLoad /\ lexer = LexIdle /\ lexcall = NoCall /\ calls = NoCalls

\* nothing but white space and comments is left unread
Blank(b) == scan(b, 1, TOKBUFSIZ).tok = -1 /\ ~scan(b, 1, TOKBUFSIZ).lex

\* the streams the next iteration may read: what is unread, continued by
\* one more piece when the decoder would otherwise be at the end
Inputs ==
  {buf} \cup
  (IF ~eof /\ Blank(buf) /\ nfed < MaxLinesOf(suite)
   THEN {buf \o l : l \in LinesOf(suite)} ELSE {})

(***************************************************************************)
(* toml.c: the cases of the switch of toml_load.                           *)
(* Each returns [rc, x, loc]: rc is -1 when the case returns -1, x is the  *)
(* parse state and loc the locals after the case.                          *)
(***************************************************************************)
Out(rc, x, loc) == [rc |-> rc, x |-> x, loc |-> loc]

\* case_LDOUBLEBRACKET with an element index that never advances
case_LDOUBLEBRACKET_noadvance(In, x, loc) ==
  LET t  == scan(In, x.p, TOKBUFSIZ)
      x1 == Scanned(x, t)
      cursor == Lookup(Schema.root, t.text)
      t2 == scan(In, x1.p, TOKBUFSIZ)
      x2 == Scanned(x1, t2)
      loc1 == [loc EXCEPT !.offset = 0, !.curkey = cursor.key]
  IN  IF t.tok # WORD /\ t.tok # STRINGTOK THEN Out(-1, x1, loc)
      ELSE IF cursor.key = NULLSTR THEN Out(-1, x1, loc)
      ELSE IF cursor.type # "array_t" \/ cursor.array.type # "table_t"
      THEN Out(-1, x1, loc)
      ELSE IF t2.tok # RDOUBLEBRACKET THEN Out(-1, x2, loc)
      ELSE Out(0, MemWrite(x2, cursor.array.count, <<1>>),
               [loc1 EXCEPT !.curtab = cursor.array.subtype,
                            !.array = cursor.array])

\* case_LDOUBLEBRACKET with the capacity test off by one
case_LDOUBLEBRACKET_overcap(In, x, loc) ==
  LET t  == scan(In, x.p, TOKBUFSIZ)
      x1 == Scanned(x, t)
      cursor == Lookup(Schema.root, t.text)
      t2 == scan(In, x1.p, TOKBUFSIZ)
      x2 == Scanned(x1, t2)
      same == loc.curkey # NULLSTR /\ loc.curkey = cursor.key
      off  == IF same THEN loc.offset + 1 ELSE 0
      loc1 == [loc EXCEPT !.offset = off, !.curkey = cursor.key]
  IN  IF t.tok # WORD /\ t.tok # STRINGTOK THEN Out(-1, x1, loc)
      ELSE IF cursor.key = NULLSTR THEN Out(-1, x1, loc)
      ELSE IF cursor.type # "array_t" \/ cursor.array.type # "table_t"
      THEN Out(-1, x1, loc)
      ELSE IF t2.tok # RDOUBLEBRACKET THEN Out(-1, x2, loc)
      ELSE IF off > cursor.array.maxlen THEN Out(-1, x2, loc1)
      ELSE Out(0,
               IF cursor.array.count # NULL
               THEN MemWrite(x2, cursor.array.count, <<off + 1>>)
               ELSE x2,
               [loc1 EXCEPT !.curtab = cursor.array.subtype,
                            !.array = cursor.array])

\* case_LDOUBLEBRACKET with an element index that never restarts
case_LDOUBLEBRACKET_norestart(In, x, loc) ==
  LET t  == scan(In, x.p, TOKBUFSIZ)
      x1 == Scanned(x, t)
      cursor == Lookup(Schema.root, t.text)
      t2 == scan(In, x1.p, TOKBUFSIZ)
      x2 == Scanned(x1, t2)
      off  == IF loc.curkey # NULLSTR THEN loc.offset + 1 ELSE 0
      loc1 == [loc EXCEPT !.offset = off, !.curkey = cursor.key]
  IN  IF t.tok # WORD /\ t.tok # STRINGTOK THEN Out(-1, x1, loc)
      ELSE IF cursor.key = NULLSTR THEN Out(-1, x1, loc)
      ELSE IF cursor.type # "array_t" \/ cursor.array.type # "table_t"
      THEN Out(-1, x1, loc)
      ELSE IF t2.tok # RDOUBLEBRACKET THEN Out(-1, x2, loc)
      ELSE IF off >= cursor.array.maxlen THEN Out(-1, x2, loc1)
      ELSE Out(0,
               IF cursor.array.count # NULL
               THEN MemWrite(x2, cursor.array.count, <<off + 1>>)
               ELSE x2,
               [loc1 EXCEPT !.curtab = cursor.array.subtype,
                            !.array = cursor.array])

case_LDOUBLEBRACKET(In, x, loc) ==
  LET t  == scan(In, x.p, TOKBUFSIZ)
      x1 == Scanned(x, t)
      cursor == Lookup(Schema.root, t.text)
      t2 == scan(In, x1.p, TOKBUFSIZ)
      x2 == Scanned(x1, t2)
      same == loc.curkey # NULLSTR /\ loc.curkey = cursor.key
      off  == IF same THEN loc.offset + 1 ELSE 0
      loc1 == [loc EXCEPT !.offset = off, !.curkey = cursor.key]
  IN  IF t.tok # WORD /\ t.tok # STRINGTOK THEN Out(-1, x1, loc)
      ELSE IF cursor.key = NULLSTR THEN Out(-1, x1, loc)
      ELSE IF cursor.type # "array_t" \/ cursor.array.type # "table_t"
      THEN Out(-1, x1, loc)
      ELSE IF t2.tok # RDOUBLEBRACKET THEN Out(-1, x2, loc)
      ELSE IF off >= cursor.array.maxlen THEN Out(-1, x2, loc1)
      ELSE Out(0,
               IF cursor.array.count # NULL
               THEN MemWrite(x2, cursor.array.count, <<off + 1>>)
               ELSE x2,
               [loc1 EXCEPT !.curtab = cursor.array.subtype,
                            !.array = cursor.array])

\* case_LBRACKET with the table name looked up in the active scope
case_LBRACKET_activescope(In, x, loc) ==
  LET t  == scan(In, x.p, TOKBUFSIZ)
      x1 == Scanned(x, t)
      cursor == Lookup(Schema[loc.curtab], t.text)
      t2 == scan(In, x1.p, TOKBUFSIZ)
      x2 == Scanned(x1, t2)
  IN  IF t.tok # WORD /\ t.tok # STRINGTOK THEN Out(-1, x1, loc)
      ELSE IF cursor.key = NULLSTR THEN Out(-1, x1, loc)
      ELSE IF cursor.type # "table_t" THEN Out(-1, x1, loc)
      ELSE IF t2.tok # RBRACKET THEN Out(-1, x2, loc)
      ELSE Out(0, x2, [loc EXCEPT !.curtab = cursor.keys,
                                  !.array = NoArray, !.offset = 0])

case_LBRACKET(In, x, loc) ==
  LET t  == scan(In, x.p, TOKBUFSIZ)
      x1 == Scanned(x, t)
      cursor == Lookup(Schema.root, t.text)
      t2 == scan(In, x1.p, TOKBUFSIZ)
      x2 == Scanned(x1, t2)
  IN  IF t.tok # WORD /\ t.tok # STRINGTOK THEN Out(-1, x1, loc)
      ELSE IF cursor.key = NULLSTR THEN Out(-1, x1, loc)
      ELSE IF cursor.type # "table_t" THEN Out(-1, x1, loc)
      ELSE IF t2.tok # RBRACKET THEN Out(-1, x2, loc)
      ELSE Out(0, x2, [loc EXCEPT !.curtab = cursor.keys,
                                  !.array = NoArray, !.offset = 0])

case_WORD(In, x, loc, key) ==
  LET r == load_key_value(In, x, key, Schema[loc.curtab], loc.array,
                          loc.offset)
  IN  Out(r.rc, r.x, loc)

(***************************************************************************)
(* The caller's view of an input, used to state the properties: its        *)
(* tokens, and the cells in which the caller keeps the value of each key   *)
(* of each scope.                                                          *)
(***************************************************************************)
RECURSIVE TokSeq(_, _)
TokSeq(In, p) ==
  LET t == scan(In, p, TOKBUFSIZ) IN
    IF t.tok = -1 THEN <<t>> ELSE <<t>> \o TokSeq(In, t.p)

\* the tokens of In; the last one is the -1 that ends it
Toks(In) == TokSeq(In, 1)

IsName(t) == t.tok \in {WORD, STRINGTOK}

\* the cells of key name of scope; i is the element for the scope elem
Dest(scope, i, name) ==
  IF scope = "root" /\ name = K_s THEN A_s..(A_s + SLen - 1)
  ELSE IF scope = "root" /\ name = K_n THEN {A_n}
  ELSE IF scope = "root" /\ name = K_b THEN {A_b}
  ELSE IF scope = "root" /\ name = K_v
  THEN A_v..(A_v + VCap - 1) \cup {A_vcount}
  ELSE IF scope = "root" /\ name = K_l THEN {A_l}
  ELSE IF scope = "root" /\ name = K_f
  THEN A_f..(A_f + VCap - 1) \cup {A_fcount}
  ELSE IF scope = "root" /\ name = K_w THEN A_wptrs..A_wcount
  ELSE IF scope = "t" /\ name = K_s THEN A_ts..(A_ts + SLen - 1)
  ELSE IF scope = "t" /\ name = K_n THEN {A_tn}
  ELSE IF scope = "elem" /\ name = K_n
  THEN {A_a + i * StructSize + OFF_n}
  ELSE IF scope = "elem" /\ name = K_s
  THEN (A_a + i * StructSize + OFF_s)..(A_a + i * StructSize + OFF_s + SLen - 1)
  ELSE IF scope = "eelem" /\ name = K_n
  THEN {A_e + i * EStructSize + OFF_n}
  ELSE IF scope = "root" /\ name = K_g THEN A_g..(A_g + GLen - 1)
  ELSE IF scope = "root" /\ name = K_h THEN {A_h}
  ELSE IF scope = "root" /\ name = K_u THEN {A_u}
  ELSE IF scope = "root" /\ name = K_i THEN {A_i}
  ELSE IF scope = "root" /\ name = K_q
  THEN A_q..(A_q + VCap - 1) \cup {A_qcount}
  ELSE {}

\* the names of the keys of a scope
Names(scope) ==
  {Schema[scope][i].key : i \in 1..(Len(Schema[scope]) - 1)}

\* the scope of the inline table that is the value of key name of scope,
\* "none" if that key is not a table
SubScope(scope, name) ==
  IF name \in Names(scope) /\ Lookup(Schema[scope], name).type = "table_t"
  THEN Lookup(Schema[scope], name).keys
  ELSE "none"

\* In starts with  name = { ... : the positions, among its tokens, of the
\* keys of that inline table
InlineKeyPos(tk) ==
  IF Len(tk) >= 4 /\ IsName(tk[1]) /\ tk[2].tok = EQUAL /\ tk[3].tok = LBRACE
  THEN {i \in 4..(Len(tk) - 1) :
          /\ IsName(tk[i])
          /\ tk[i - 1].tok \in {LBRACE, COMMA}
          /\ tk[i + 1].tok = EQUAL
          /\ \A j \in 4..i : tk[j].tok # RBRACE}
  ELSE {}

\* In starts with  name = [ {...}, {...} : the positions, among its
\* tokens, of the keys of those inline tables
ArrTabKeyPos(tk) ==
  IF Len(tk) >= 5 /\ IsName(tk[1]) /\ tk[2].tok = EQUAL
       /\ tk[3].tok = LBRACKET
  THEN {i \in 5..(Len(tk) - 1) :
          /\ IsName(tk[i])
          /\ tk[i - 1].tok \in {LBRACE, COMMA}
          /\ tk[i + 1].tok = EQUAL
          /\ \A j \in 4..i : tk[j].tok # RBRACKET}
  ELSE {}

\* the element of the array that the key at position i of tk belongs to
ElemOf(tk, i) == Cardinality({j \in 4..i : tk[j].tok = LBRACE}) - 1

\* the cells named by  a = [ {...}, {...} ]
ArrTabCells(tk) ==
  {A_acount} \cup
  UNION {Dest("elem", ElemOf(tk, i), tk[i].text) :
           i \in {j \in ArrTabKeyPos(tk) : ElemOf(tk, j) < ACap}}

\* the cells named by the expression that In starts with, read in the
\* given scope (at element i for the scope elem)
Addressed(In, scope, i) ==
  LET tk == Toks(In) IN
    IF IsName(tk[1])
    THEN Dest(scope, i, tk[1].text) \cup
         UNION {Dest(SubScope(scope, tk[1].text), 0, tk[j].text) :
                  j \in InlineKeyPos(tk)} \cup
         (IF scope = "root" /\ tk[1].text = K_a THEN ArrTabCells(tk) ELSE {})
    ELSE IF tk[1].tok = LDOUBLEBRACKET /\ Len(tk) >= 2 /\ tk[2].text = K_a
    THEN {A_acount}
    ELSE IF tk[1].tok = LDOUBLEBRACKET /\ Len(tk) >= 2 /\ tk[2].text = K_e
    THEN {A_ecount}
    ELSE {}

\* the name in the header that In starts with
HeaderName(In) ==
  LET tk == Toks(In) IN IF Len(tk) >= 2 THEN tk[2].text ELSE <<>>

\* the scope made active by the headers accepted so far
ActiveScope ==
  IF hdrs = <<>> THEN "root"
  ELSE LET h == hdrs[Len(hdrs)]
           d == Lookup(Schema.root, h[2])
       IN  IF h[1] = "[" THEN d.keys ELSE d.array.subtype

\* the element that the last [[a]] or [[e]] header opened, as published to
\* the caller: the length of the array minus one
OpenElem ==
  IF hdrs # <<>> /\ hdrs[Len(hdrs)] = <<"[[", K_e>>
  THEN mem[A_ecount] - 1
  ELSE mem[A_acount] - 1

(***************************************************************************)
(* toml.c: toml_load, one iteration of its loop per step.                  *)
(***************************************************************************)
\* A write behind the end of a token buffer of size bytes is undefined
\* behaviour.  What an iteration that made one ends with is any of: what
\* it ends with when the bytes behind the buffer are simply stored, a
\* return of -1, and the same without any write to caller memory.
Outcomes(o, size) ==
  IF o.x.hi > size
  THEN {o, Out(-1, o.x, o.loc),
        Out(-1, [o.x EXCEPT !.mem = mem, !.w = <<>>], o.loc)}
  ELSE {o}

\* the state after an iteration that read In and ended with o
CommitAs(name, In, o) ==
  /\ pc' = IF o.rc = -1 \/ name = "end" THEN "done" ELSE "loop"
  /\ ret' = o.rc
  /\ buf' = SubSeq(In, o.x.p, Len(In))
  /\ eof' = o.x.eof
  /\ nfed' = IF In = buf THEN nfed ELSE nfed + 1
  /\ mem' = o.x.mem
  /\ curtab' = o.loc.curtab
  /\ array' = o.loc.array
  /\ offset' = o.loc.offset
  /\ curkey' = o.loc.curkey
  /\ act' = name
  /\ inp' = In
  /\ wlog' = o.x.w
  /\ pre' = [mem |-> mem, loc |-> Locals, lexerr |-> lexerr, buf |-> buf]
  /\ mem0' = mem0
  /\ hdrs' = IF name \in {"[[", "["} /\ o.rc = 0
             THEN Append(hdrs, <<name, HeaderName(In)>>) ELSE hdrs
  /\ named' = named \cup Addressed(In, ActiveScope, OpenElem)
  /\ lexerr' = (lexerr \/ o.x.lex)
  /\ suite' = suite
  /\ isoc23' = isoc23
  /\ tokhi' = o.x.hi
  /\ UNCHANGED <<lexer, lexcall, calls>>

Commit(name, In, o) ==
  \E u \in Outcomes(o, TOKBUFSIZ) : CommitAs(name, In, u)

\* the token the iteration starts with
Top(In) == scan(In, 1, TOKBUFSIZ)

Start(In) == Scanned([X0(mem) EXCEPT !.eof = eof], Top(In))

\* case LDOUBLEBRACKET: [[table]]
ArrayTableHeader ==
  /\ pc = "loop"
  /\ \E In \in Inputs :
       /\ Top(In).tok = LDOUBLEBRACKET
       /\ Commit("[[", In, case_LDOUBLEBRACKET(In, Start(In), Locals))

\* case LBRACKET: [table]
TableHeader ==
  /\ pc = "loop"
  /\ \E In \in Inputs :
       /\ Top(In).tok = LBRACKET
       /\ Commit("[", In, case_LBRACKET(In, Start(In), Locals))

\* case STRING, case WORD: key/value pairs
KeyValue ==
  /\ pc = "loop"
  /\ \E In \in Inputs :
       /\ Top(In).tok \in {STRINGTOK, WORD}
       /\ Commit("kv", In, case_WORD(In, Start(In), Locals, Top(In).text))

\* default: Invalid syntax
InvalidSyntax ==
  /\ pc = "loop"
  /\ \E In \in Inputs :
       /\ Top(In).tok \notin {-1, LDOUBLEBRACKET, LBRACKET, STRINGTOK, WORD}
       /\ Commit("default", In, Out(-1, Start(In), Locals))

\* scan returned -1: the loop ends and toml_load returns 0
LoopEnd ==
  /\ pc = "loop"
  /\ \E In \in Inputs :
       /\ Top(In).tok = -1
       /\ Commit("end", In, Out(0, Start(In), Locals))

Next ==
  \/ ArrayTableHeader
  \/ TableHeader
  \/ KeyValue
  \/ InvalidSyntax
  \/ LoopEnd

Spec == Init /\ [][Next]_vars

(***************************************************************************)
(* mtoml.c: the flat decoder.  Its scan_word is the one of toml.c, line    *)
(* for line; its scan has no [[ and ]] tokens.  The token types are the    *)
(* ones above without the two double brackets.                             *)
(***************************************************************************)
RECURSIVE m_scan(_, _, _)
m_scan(In, p, size) ==
  IF p > Len(In)
  THEN [tok |-> -1, text |-> <<>>, p |-> p, eof |-> TRUE, lex |-> FALSE,
        hi |-> 0]
  ELSE LET c == In[p] IN
    IF isspace(c) THEN m_scan(In, p + 1, size)
    ELSE IF c = 35 THEN
      LET e == FirstNL(In, p + 1) IN m_scan(In, e + 1, size)
    ELSE IF c = 61 THEN Punct(EQUAL, p + 1, FALSE)
    ELSE IF c = 91 THEN Punct(LBRACKET, p + 1, FALSE)
    ELSE IF c = 93 THEN Punct(RBRACKET, p + 1, FALSE)
    ELSE IF c = 123 THEN Punct(LBRACE, p + 1, FALSE)
    ELSE IF c = 125 THEN Punct(RBRACE, p + 1, FALSE)
    ELSE IF c = 44 THEN Punct(COMMA, p + 1, FALSE)
    ELSE IF c = 46 THEN Punct(DOT, p + 1, FALSE)
    ELSE scan_word(In, p, size)

\* the template of the flat decoder: scalars, and one table
MSchema ==
  [ root |-> << Key(K_s, "string_t", A_s, SLen, "none", NoArray),
                Key(K_n, "integer_t", A_n, 0, "none", NoArray),
                Key(K_b, "boolean_t", A_b, 0, "none", NoArray),
                Key(K_t, "table_t", NULL, 0, "t", NoArray),
                Key(K_r, "real_t", A_r, 0, "none", NoArray),
                Key(K_g, "string_t", A_g, MTOKBUFSIZ + 2, "none", NoArray),
                Sentinel >>,
    t    |-> << Key(K_s, "string_t", A_ts, SLen, "none", NoArray),
                Key(K_n, "integer_t", A_tn, 0, "none", NoArray),
                Sentinel >> ]

m_target_address(cursor) == LastAssigned(cursor, m_target_cases(cursor.type))

\* atoi(s): (int) strtol(s, NULL, 10)
atoi(text) == CastInt(strtol(text, 10).val)

RECURSIVE Pow10(_)
Pow10(k) == IF k = 0 THEN 1 ELSE 10 * Pow10(k - 1)

\* A double is held as the number of units of 10^-RealDigits it stands for,
\* which is exact for the literals given here (no exponent, at most
\* RealDigits digits after the point).
\* the k digits of s from i on, read as an integer; a missing digit is 0
RECURSIVE atof_frac(_, _, _)
atof_frac(s, i, k) ==
  IF k = 0 THEN 0
  ELSE IF i > Len(s) \/ DigitVal(s[i]) >= 10 THEN 0
  ELSE DigitVal(s[i]) * Pow10(k - 1) + atof_frac(s, i + 1, k - 1)

\* the value of the digits ip before the point and of those after it
atof_value(s, neg, ip) ==
  IF neg
  THEN ip.acc * Pow10(RealDigits)
         - (IF ip.end <= Len(s) /\ s[ip.end] = 46
            THEN atof_frac(s, ip.end + 1, RealDigits) ELSE 0)
  ELSE (IF ip.end <= Len(s) /\ s[ip.end] = 46
        THEN atof_frac(s, ip.end + 1, RealDigits) ELSE 0)
         - ip.acc * Pow10(RealDigits)

\* atof(s): strtod(s, NULL) of an optional sign, digits, a point, digits
atof(s) ==
  atof_value(s, Len(s) >= 1 /\ s[1] = 45,
             strtol_digits(s, IF Len(s) >= 1 /\ s[1] \in {43, 45}
                              THEN 2 ELSE 1, 10, 0, FALSE, FALSE))

\* the STRING/WORD case of the value of a key
m_bind_value(x, cursor, t) ==
  IF t.tok = STRINGTOK /\ cursor.type # "string_t" THEN Ret(-1, x)
  ELSE IF t.tok # STRINGTOK /\ cursor.type = "string_t" THEN Ret(-1, x)
  ELSE LET valp == m_target_address(cursor) IN
    IF valp = NULL THEN Ret(0, x)
    ELSE IF cursor.type = "string_t"
    THEN LET vl == Len(t.text)
             cl == cursor.len - 1
             x1 == MemWrite(x, valp, Rep(NUL, cl))               \* memset
         IN  Ret(0, MemWrite(x1, valp,
                             SubSeq(t.text, 1, IF vl < cl THEN vl ELSE cl)))
    ELSE IF cursor.type = "integer_t"
    THEN Ret(0, MemWrite(x, valp, <<atoi(t.text)>>))
    ELSE IF cursor.type = "boolean_t"
    THEN Ret(0, MemWrite(x, valp, <<IF t.text = T_true THEN 1 ELSE 0>>))
    ELSE IF cursor.type = "real_t"
    THEN Ret(0, MemWrite(x, valp, <<atof(t.text)>>))
    ELSE Ret(0, x)

m_case_LBRACKET(In, x, loc) ==
  LET t  == m_scan(In, x.p, MTOKBUFSIZ)
      x1 == Scanned(x, t)
      cursor == Lookup(MSchema.root, t.text)
      t2 == m_scan(In, x1.p, MTOKBUFSIZ)
      x2 == Scanned(x1, t2)
  IN  IF t.tok # WORD THEN Out(-1, x1, loc)
      ELSE IF cursor.key = NULLSTR THEN Out(-1, x1, loc)
      ELSE IF cursor.type # "table_t" THEN Out(-1, x1, loc)
      ELSE IF t2.tok # RBRACKET THEN Out(-1, x2, loc)
      ELSE Out(0, x2, [loc EXCEPT !.curtab = cursor.keys])

m_case_WORD(In, x, loc, key) ==
  LET cursor == Lookup(MSchema[loc.curtab], key) IN
  IF cursor.key = NULLSTR THEN Out(-1, x, loc)
  ELSE
    LET maxlen == IF cursor.type = "string_t" THEN cursor.len ELSE MTOKBUFSIZ
        t1 == m_scan(In, x.p, MTOKBUFSIZ)
        x1 == Scanned(x, t1)
    IN  IF t1.tok # EQUAL THEN Out(-1, x1, loc)
        ELSE
          LET t2 == m_scan(In, x1.p, maxlen)
              x2 == Scanned(x1, t2)
          IN  IF t2.tok \in {STRINGTOK, WORD}
              THEN LET r == m_bind_value(x2, cursor, t2)
                   IN  Out(r.rc, r.x, loc)
              ELSE IF t2.tok \in {LBRACKET, LBRACE}
              THEN Out(0, x2, loc)
              ELSE Out(-1, x2, loc)

L_r376 == Bytes(<<"r", "=", "3", ".", "7", "6", "\n">>)
L_rneg == Bytes(<<"r", " ", "=", " ", "-", "0", ".", "5", "\n">>)
L_nneg == Bytes(<<"n", "=", "-", "4", "\n">>)

\* values for g that fill the token buffer of mtoml.c, or all but one byte
MLongLines == {GLit(MTOKBUFSIZ), GLit(MTOKBUFSIZ - 1), L_n1}

\* the pieces of input given to the flat decoder
MLines ==
  { L_tab, L_n1, L_n2, L_btrue, L_unknown, L_nquoted, L_sbare, L_inl,
    L_unterm, L_valunterm, L_tabunk, L_tabkind, L_noequal, L_stray, L_aot,
    StrLit(SLen - 2), StrLit(SLen - 1), StrLit(SLen),
    L_bfalse, L_r376, L_rneg, L_nneg }

MInputs ==
  {buf} \cup
  (IF ~eof /\ scan(buf, 1, MTOKBUFSIZ).tok = -1
          /\ ~scan(buf, 1, MTOKBUFSIZ).lex /\ nfed < MaxLinesOf(suite)
   THEN {buf \o l : l \in (IF suite = "long" THEN MLongLines ELSE MLines)}
   ELSE {})

\* the token an iteration starts with
MTop(In) == m_scan(In, 1, MTOKBUFSIZ)

MStart(In) == Scanned([X0(mem) EXCEPT !.eof = eof], MTop(In))

\* the state after an iteration that read In and ended with o
MCommitAs(name, In, o) ==
  /\ pc' = IF o.rc = -1 \/ name = "end" THEN "done" ELSE "loop"
  /\ ret' = o.rc
  /\ buf' = SubSeq(In, o.x.p, Len(In))
  /\ eof' = o.x.eof
  /\ nfed' = IF In = buf THEN nfed ELSE nfed + 1
  /\ mem' = o.x.mem
  /\ curtab' = o.loc.curtab
  /\ UNCHANGED <<array, offset, curkey, mem0, named>>
  /\ act' = name
  /\ inp' = In
  /\ wlog' = o.x.w
  /\ pre' = [mem |-> mem, loc |-> Locals, lexerr |-> lexerr, buf |-> buf]
  /\ hdrs' = IF name = "[" /\ o.rc = 0
             THEN Append(hdrs, <<name, m_scan(In, MTop(In).p, MTOKBUFSIZ).text>>)
             ELSE hdrs
  /\ lexerr' = (lexerr \/ o.x.lex)
  /\ suite' = suite
  /\ isoc23' = isoc23
  /\ tokhi' = o.x.hi
  /\ UNCHANGED <<lexer, lexcall, calls>>

MCommit(name, In, o) ==
  \E u \in Outcomes(o, MTOKBUFSIZ) : MCommitAs(name, In, u)

\* case LBRACKET: [ x ]
MTableHeader ==
  /\ pc = "loop"
  /\ \E In \in MInputs :
       /\ MTop(In).tok = LBRACKET
       /\ MCommit("[", In, m_case_LBRACKET(In, MStart(In), Locals))

\* case WORD: key/value
MKeyValue ==
  /\ pc = "loop"
  /\ \E In \in MInputs :
       /\ MTop(In).tok = WORD
       /\ MCommit("kv", In, m_case_WORD(In, MStart(In), Locals, MTop(In).text))

\* default: Invalid syntax
MInvalidSyntax ==
  /\ pc = "loop"
  /\ \E In \in MInputs :
       /\ MTop(In).tok \notin {-1, LBRACKET, WORD}
       /\ MCommit("default", In, Out(-1, MStart(In), Locals))

\* scan returned -1: the loop ends and toml_load returns 0
MLoopEnd ==
  /\ pc = "loop"
  /\ \E In \in MInputs :
       /\ MTop(In).tok = -1
       /\ MCommit("end", In, Out(0, MStart(In), Locals))

NextM ==
  \/ MTableHeader
  \/ MKeyValue
  \/ MInvalidSyntax
  \/ MLoopEnd

InitM == Init /\ suite \in {"base", "long"}

SpecM == InitM /\ [][NextM]_vars

(***************************************************************************)
(* lex.c on its own: lex_init on a text, then lex_scan_next until it       *)
(* returns lex_eof or lex_ERROR.                                           *)
(***************************************************************************)
MaxLit == 4      \* characters after the sign of the numbers of LexBodies
PostCalls == 3   \* calls of lex_scan_next that return lex_eof

\* the texts of digits and underscores, a digit first
LexBodies ==
  UNION {{b \in [1..n -> {48, 53, 95}] : b[1] # 95} : n \in 1..MaxLit}

\* what follows a number
LexTails ==
  {<<>>, <<10>>, <<32>>, <<44, 32>>, <<93>>, <<125>>, Bytes(<<" ", "#", "c">>)}

\* numbers, alone and as the value of a key
LexNumbers ==
  {s \o b \o t : s \in {<<>>, <<43>>, <<45>>}, b \in LexBodies,
                 t \in LexTails}
  \cup {Bytes(<<"k", " ", "=", " ">>) \o s \o b \o <<10>> :
          s \in {<<>>, <<45>>}, b \in LexBodies}

\* other texts
LexOthers ==
  { Bytes(<<"5", "_", "3", "4", "9", "_", "2", "2", "1">>),
    Bytes(<<"5", "3", "4", "9", "2", "2", "1">>),
    Bytes(<<"-", "5", "3", "_", "4", "9", "_", "2", "2", "1">>),
    Bytes(<<"-", "5", "3", "4", "9", "2", "2", "1">>),
    Bytes(<<"[", "[", "a", "]", "]", "\n", "[", "t", "]", "\n">>),
    Bytes(<<"k", " ", "=", " ", "\"", "v", "\\", "n", "\"", "\n">>),
    Bytes(<<"k", "=", "'", "v", "'", " ", "#", "c", "\n", "#", "d", "\n">>),
    Bytes(<<"k", "=", "\"", "\"", "\"", "v", "\"", "\"", "\"", "\"", "\n">>),
    Bytes(<<"k", "=", "\"", "\"", ",", "'", "'", "'", "x">>),
    Bytes(<<"b", "=", "t", "r", "u", "e", "\n">>),
    Bytes(<<"d", "=", "1", "9", "7", "9", "-", "0", "5", "-", "2", "7">>),
    Bytes(<<"f", "=", "1", ".", "5", "e", "1", "_", "0", ",", "-", "i", "n",
            "f", "\n">>),
    Bytes(<<"f", "=", "+", "n", "a", "n", " ", "-", "n", "a", "n", " ", "+",
            ".", "5">>),
    Bytes(<<"0", "x", "F", "_", "F", "\n", "0", "o", "1", "7", " ", "0", "b",
            "1", "0", "1">>),
    Bytes(<<"-", "0", "x", "1">>),
    Bytes(<<"a", ".", "b", "=", "{", "x", "=", "1", "}", "\n">>),
    Bytes(<<"k", "=", "\"", "v", "\n">>),
    Bytes(<<"k", "=", "\"", "\\", "q", "\"">>),
    Bytes(<<"k", "=", "?">>),
    Bytes(<<"+", "x">>), Bytes(<<"-", "x">>), Bytes(<<"k", "=", "-", "\n">>),
    Bytes(<<"+">>), Bytes(<<"+", "_", "5">>), Bytes(<<"+", "i", "n", "f">>),
    Bytes(<<"0", "x">>), Bytes(<<"0", "o", "8">>), Bytes(<<"0", "b", " ", "1">>),
    Bytes(<<"0", "x", "_", "\n", "1">>),
    Bytes(<<"'", "'", "'", "a", "'", "'", "'">>),
    Bytes(<<"k", "=", "'", "'", "'", "a", "\n", "b", "'", "'", "'", "\n">>) }

\* multiline basic strings: the opening quotes, a content, a run of n
\* quotes and what follows it
LexMl ==
  {Rep(34, 3) \o c \o Rep(34, n) \o t :
     c \in {<<>>, <<97>>, <<97, 34, 98>>, <<34, 34, 97>>},
     n \in 3..7, t \in {<<>>, <<10>>}}

\* texts with the three line ends
LexLineEnds ==
  {a \o e \o b : a \in {<<>>, <<97>>, <<53>>, <<32>>},
                 e \in {<<13>>, <<10>>, <<13, 10>>},
                 b \in {<<>>, <<98>>, <<10>>, <<13>>}}

\* texts whose token fills item.val, and overflows it by one byte
LexLong ==
  { Rep(97, ITEMSIZ - 1), Rep(97, ITEMSIZ),
    <<39>> \o Rep(97, ITEMSIZ) \o <<39>> }

LexInputs ==
  LexNumbers \cup LexOthers \cup LexMl \cup LexLineEnds \cup LexLong

InitL ==
  /\ InitLoad /\ suite = "base" /\ mem[A_s] = NUL
  /\ \E item \in ItemFills, input \in LexInputs :
       lexer = lex_init(item, input)
  /\ lexcall = NoCall
  /\ calls = NoCalls

\* what pos and lineno, the members behind item, can hold after a store
\* behind the end of item.val
Clobbered == {0, 1, 97}

\* A store behind the end of item.val is undefined: it may leave the other
\* members alone or change them.
LexOutcomes(r) ==
  IF r.lex.hi > ITEMSIZ
  THEN {[r EXCEPT !.lex.pos = v, !.lex.lineno = w] :
          v \in Clobbered \cup {r.lex.pos},
          w \in Clobbered \cup {r.lex.lineno}}
  ELSE {r}

\* one call of lex_scan_next; the caller goes on calling after lex_ERROR,
\* and PostCalls times at the end of the text
LexScanNext ==
  /\ lexcall.eofs < PostCalls
  /\ lexcall.n < Len(lexer.input) + PostCalls
  /\ \E r \in LexOutcomes(lex_scan_next(lexer)) :
       /\ lexer' = r.lex
       /\ lexcall' = [n |-> lexcall.n + 1, from |-> lexer.ptr, ret |-> r.ret,
                      errd |-> lexcall.errd
                                 \/ (lexcall.n > 0 /\ lexcall.ret = lex_ERROR),
                      eofs |-> lexcall.eofs
                                 + (IF r.ret = lex_eof THEN 1 ELSE 0)]
  /\ UNCHANGED <<loadvars, calls>>

NextL == LexScanNext

SpecL == InitL /\ [][NextL]_vars

(***************************************************************************)
(* The two programs, each run to its end: a call of toml_load (toml.c) on  *)
(* a file, or the calls of lex_scan_next on a text.  A program that is     *)
(* running takes its next step: toml_load goes round its loop until it     *)
(* returns, the caller of lex_scan_next calls it until it has returned     *)
(* lex_eof PostCalls times.                                                *)
(***************************************************************************)
InitT == Init \/ InitL

NextT ==
  \/ lexer = LexIdle /\ Next
  \/ lexer # LexIdle /\ NextL

\* a step of NextT is possible: toml_load is in its loop, resp. the caller
\* of lex_scan_next has another call to make
Running ==
  \/ lexer = LexIdle /\ pc = "loop"
  \/ /\ lexer # LexIdle
     /\ lexcall.eofs < PostCalls
     /\ lexcall.n < Len(lexer.input) + PostCalls

\* Weak fairness of NextT, written out: a behaviour in which a step stays
\* possible for ever takes steps for ever.  Every step that changes vars is
\* a step of NextT.
SpecT == InitT /\ [][NextT]_vars /\ ([]<>(~Running) \/ []<><<TRUE>>_vars)

(***************************************************************************)
(* toml.c: two calls of toml_load, each on its own stream and with the     *)
(* destinations of its own template, one iteration of one call per step.   *)
(* The template of call i is Schema with every address moved by Reloc(i).  *)
(***************************************************************************)
CallIds == {1, 2}

Reloc(i) == (i - 1) * MemSize

\* the lines the texts of the two calls are made of
ParLineSet == {L_aot, L_tab, L_n1, L_n2, StrLit(SLen - 2)}

RECURSIVE ParDocs(_)
ParDocs(k) ==
  IF k = 0 THEN {<<>>}
  ELSE ParDocs(k - 1) \cup {d \o l : d \in ParDocs(k - 1), l \in ParLineSet}

\* curtab = keys, offset = 0, array = NULL, curkey = NULL
EntryLocals == [curtab |-> "root", array |-> NoArray, offset |-> 0,
                curkey |-> NULLSTR]

\* the automatic variables as one static set, that of call 1
CallLocals_static(c, i) == c.st[1].loc

\* the automatic variables of call i
CallLocals(c, i) == c.st[i].loc

\* the memory as call i addresses it
View(c, i) == [a \in Addrs |-> c.mem[a + Reloc(i)]]

\* the switch of toml_load on the token t that scan returned
toml_load_switch(In, x, loc, t) ==
  IF t.tok = LDOUBLEBRACKET THEN case_LDOUBLEBRACKET(In, x, loc)
  ELSE IF t.tok = LBRACKET THEN case_LBRACKET(In, x, loc)
  ELSE IF t.tok \in {STRINGTOK, WORD} THEN case_WORD(In, x, loc, t.text)
  ELSE IF t.tok = -1 THEN Out(0, x, loc)
  ELSE Out(-1, x, loc)

\* one iteration of the loop on the stream b, that starts with token t
toml_load_iter(b, e, m, loc, t) ==
  toml_load_switch(b, Scanned([X0(m) EXCEPT !.eof = e], t), loc, t)

\* memory m after the writes w of call i
RECURSIVE ParWrite(_, _, _)
ParWrite(m, w, i) ==
  IF w = <<>> THEN m
  ELSE ParWrite([m EXCEPT ![w[1][1] + Reloc(i)] = w[1][2]], Tail(w), i)

\* what a write log says was written: address and value
Writes(w) == [k \in 1..Len(w) |-> <<w[k][1], w[k][2]>>]

\* call i after the iteration that started with token t and ended with o
CallAfter(c, t, o) ==
  [buf |-> SubSeq(c.buf, o.x.p, Len(c.buf)),
   eof |-> o.x.eof,
   loc |-> o.loc,
   pc  |-> IF o.rc = -1 \/ t.tok = -1 THEN "done" ELSE "loop",
   ret |-> o.rc,
   w   |-> c.w \o Writes(o.x.w),
   n   |-> c.n + 1,
   cut |-> c.cut]

\* the other call sees that a step was made between its iterations
CutOthers(st, i) ==
  [j \in CallIds |->
     IF j # i /\ st[j].pc = "loop" /\ st[j].n >= 1
     THEN [st[j] EXCEPT !.cut = TRUE] ELSE st[j]]

ParCommit(i, t, o) ==
  calls' = [calls EXCEPT
              !.st = CutOthers([calls.st EXCEPT ![i] = CallAfter(@, t, o)], i),
              !.mem = ParWrite(@, o.x.w, i)]

\* one iteration of the loop of call i
ParIter(i) ==
  /\ calls.st[i].pc = "loop"
  /\ ParCommit(i, Top(calls.st[i].buf),
               toml_load_iter(calls.st[i].buf, calls.st[i].eof,
                              View(calls, i), CallLocals(calls, i),
                              Top(calls.st[i].buf)))
  /\ UNCHANGED <<loadvars, lexer, lexcall>>

InitP ==
  /\ InitLoad /\ suite = "base" /\ mem[A_s] = NUL
  /\ lexer = LexIdle /\ lexcall = NoCall
  /\ \E d1 \in ParDocs(ParLines), d2 \in ParDocs(ParLines), fill \in Fills :
       calls = [st  |-> [i \in CallIds |->
                           [buf |-> IF i = 1 THEN d1 ELSE d2, eof |-> FALSE,
                            loc |-> EntryLocals, pc |-> "loop", ret |-> 0,
                            w |-> <<>>, n |-> 0, cut |-> FALSE]],
                mem |-> [a \in 1..(2 * MemSize) |-> fill],
                doc |-> <<d1, d2>>, fill |-> fill]

NextP == \E i \in CallIds : ParIter(i)

SpecP == InitP /\ [][NextP]_vars

(***************************************************************************)
(* Properties.                                                             *)
(***************************************************************************)
\* no write of the last iteration was made after position p was passed
NoWriteFrom(p) == \A k \in 1..Len(wlog) : wlog[k][3] < p

Failed == pc = "done" /\ ret = -1

\* C1: a key/value expression whose key is in no descriptor of the active
\* scope (root, the scope of the last header, or the sub-schema of the
\* inline table being read) makes toml_load return -1, and that expression
\* writes nothing to caller memory.
C1_UnknownKeyFails ==
  act = "kv" =>
    LET tk  == Toks(inp)
        sub == SubScope(ActiveScope, tk[1].text)
    IN  /\ tk[1].text \notin Names(ActiveScope)
             => Failed /\ mem = pre.mem /\ wlog = <<>>
        /\ \A i \in InlineKeyPos(tk) :
             (sub # "none" /\ tk[i].text \notin Names(sub))
               => Failed /\ NoWriteFrom(tk[i].p)

\* a key of the root scope only was given after a header and rejected
C1_Witness ==
  /\ act = "kv" /\ Failed
  /\ ActiveScope # "root"
  /\ Toks(inp)[1].text \in Names("root") \ Names(ActiveScope)

\* the value token at position i of tk does not agree with descriptor cur
Disagree(tk, i, cur) ==
  \/ tk[i].tok = STRINGTOK /\ cur.type # "string_t"
  \/ tk[i].tok = WORD /\ cur.type = "string_t"

\* C2: a quoted value for a key whose kind is not string, and an unquoted
\* value for a key whose kind is string, each make toml_load return -1 and
\* leave the destination of the key unmodified.
C2_TypeAgreement ==
  act = "kv" =>
    LET tk  == Toks(inp)
        sub == SubScope(ActiveScope, tk[1].text)
    IN  /\ ( /\ tk[1].text \in Names(ActiveScope)
             /\ Len(tk) >= 3 /\ tk[2].tok = EQUAL
             /\ Disagree(tk, 3, Lookup(Schema[ActiveScope], tk[1].text)) )
             => Failed /\ mem = pre.mem
        /\ \A i \in InlineKeyPos(tk) :
             ( /\ sub # "none" /\ tk[i].text \in Names(sub)
               /\ i + 2 <= Len(tk)
               /\ Disagree(tk, i + 2, Lookup(Schema[sub], tk[i].text)) )
               => Failed /\ NoWriteFrom(tk[i].p)

\* an unquoted value was given to a string key and rejected
C2_Witness ==
  /\ act = "kv" /\ Failed /\ mem = pre.mem
  /\ LET tk == Toks(inp) IN
       /\ tk[1].text \in Names(ActiveScope)
       /\ Lookup(Schema[ActiveScope], tk[1].text).type = "string_t"
       /\ tk[2].tok = EQUAL /\ tk[3].tok = WORD

\* the number of [[a]] headers at the end of hdrs
RECURSIVE TrailingAot(_)
TrailingAot(h) ==
  IF h # <<>> /\ h[Len(h)] = <<"[[", K_a>>
  THEN 1 + TrailingAot(SubSeq(h, 1, Len(h) - 1)) ELSE 0

\* the headers accepted so far end with consecutive [[a]] headers and no
\* [[a]] header came before those
AotRun ==
  LET n == TrailingAot(hdrs) IN
    /\ n >= 1
    /\ \A i \in 1..(Len(hdrs) - n) : hdrs[i][1] # "[["

\* the cells of element i of the array of tables a
ElemCells(i) == (A_a + i * StructSize)..(A_a + (i + 1) * StructSize - 1)

\* C3: after N consecutive [[a]] headers, 1 <= N <= ACap, the key/values
\* that follow the N-th header are written to element N-1 and to no other
\* cell, and the published length is N (also when toml_load returns 0).
C3_ConsecutiveHeaders ==
  AotRun =>
    LET n == TrailingAot(hdrs) IN
      /\ n <= ACap
      /\ mem[A_acount] = n
      /\ (act = "[[" /\ pc = "loop") =>
            \A k \in 1..Len(wlog) : wlog[k][1] = A_acount
      /\ act = "kv" => \A k \in 1..Len(wlog) : wlog[k][1] \in ElemCells(n - 1)
      /\ (act = "kv" /\ pc = "loop") =>
            /\ wlog # <<>>
            /\ \A a \in Addressed(inp, "elem", n - 1) :
                 \E k \in 1..Len(wlog) : wlog[k][1] = a

\* ACap headers, each followed by a key/value, and toml_load returned 0
C3_Witness ==
  /\ AotRun /\ TrailingAot(hdrs) = ACap
  /\ pc = "done" /\ ret = 0
  /\ \A i \in 0..(ACap - 1) :
       A_a + i * StructSize + OFF_n \in named /\ mem[A_a + i * StructSize + OFF_n] \in {1, 2}

\* the text is a non-empty run of decimal digits
IsDigits(text) ==
  text # <<>> /\ \A i \in 1..Len(text) : text[i] >= 48 /\ text[i] <= 57

\* tk is  name = [ e1, e2, ..., ek ]  with k decimal integers
IsIntArray(tk, k) ==
  /\ Len(tk) >= 4 + 2 * k
  /\ IsName(tk[1]) /\ tk[2].tok = EQUAL /\ tk[3].tok = LBRACKET
  /\ \A j \in 1..k :
       /\ tk[2 + 2 * j].tok = WORD /\ IsDigits(tk[2 + 2 * j].text)
       /\ tk[3 + 2 * j].tok = (IF j = k THEN RBRACKET ELSE COMMA)

\* C4: for the integer array v of capacity VCap, an array value with
\* exactly VCap elements is accepted and publishes length VCap; one with
\* VCap + 1 elements makes toml_load return -1; no element is ever written
\* at an index >= VCap.
C4_ArrayCapacity ==
  (act = "kv" /\ ActiveScope = "root" /\ Toks(inp)[1].text = K_v) =>
    LET tk == Toks(inp) IN
      /\ IsIntArray(tk, VCap) =>
           /\ pc = "loop" /\ ret = 0
           /\ mem[A_vcount] = VCap
           /\ \A j \in 0..(VCap - 1) :
                mem[A_v + j] = strtol(tk[4 + 2 * j].text, 10).val
      /\ IsIntArray(tk, VCap + 1) => Failed
      /\ \A k \in 1..Len(wlog) :
           wlog[k][1] \in (A_v..(A_v + VCap - 1)) \cup {A_vcount}

\* an array value with one element too many was rejected after the first
\* VCap elements were stored
C4_Witness ==
  /\ act = "kv" /\ ActiveScope = "root" /\ Failed
  /\ IsIntArray(Toks(inp), VCap + 1)
  /\ Len(wlog) = VCap

\* the first cell of the destination of key name of scope
DestBase(scope, i, name) ==
  CHOOSE a \in Dest(scope, i, name) : \A b \in Dest(scope, i, name) : a <= b

\* C5: a quoted value longer than len-1 bytes given to a string key of
\* declared capacity len is accepted and truncated: toml_load does not fail
\* because of it and the destination holds the first len-1 bytes of the
\* value followed by a terminator.
C5_LongStringTruncated ==
  act = "kv" =>
    LET tk  == Toks(inp)
        cur == Lookup(Schema[ActiveScope], tk[1].text)
    IN  ( /\ tk[1].text \in Names(ActiveScope) /\ cur.type = "string_t"
          /\ Len(tk) >= 3 /\ tk[2].tok = EQUAL /\ tk[3].tok = STRINGTOK
          /\ Len(tk[3].text) > cur.len - 1 )
        => /\ ~Failed
           /\ LET d == DestBase(ActiveScope, OpenElem, tk[1].text) IN
                /\ \A j \in 0..(cur.len - 2) : mem[d + j] = tk[3].text[j + 1]
                /\ mem[d + cur.len - 1] = NUL

\* the string buffers of the caller
StrBufs ==
  {Dest("root", 0, K_s), Dest("t", 0, K_s)} \cup
  {Dest("elem", i, K_s) : i \in 0..(ACap - 1)}

\* C6: every successful bind of a string value, in toml.c and in mtoml.c,
\* writes only bytes [0, capacity) of the destination buffer and leaves a
\* NUL at an index <= capacity-1, whatever the buffer held before the call.
C6_StringBindTerminated ==
  (act = "kv" /\ pc = "loop") =>
    LET tk == Toks(inp) IN
      /\ (Len(tk) >= 3 /\ tk[2].tok = EQUAL /\ tk[3].tok = STRINGTOK)
           => \A k \in 1..Len(wlog) :
                wlog[k][1] \in Dest(ActiveScope, OpenElem, tk[1].text)
      /\ \A d \in StrBufs :
           (\E k \in 1..Len(wlog) : wlog[k][1] \in d)
             => \E a \in d : mem[a] = NUL

\* C7: every lexical error (an unterminated quoted string, a token longer
\* than the token buffer) makes toml_load return -1 wherever it occurs, and
\* toml_load returns 0 only when the whole input was scanned to its end.
C7_LexicalErrorFails ==
  /\ lexerr => Failed
  /\ (pc = "done" /\ ret = 0) => (eof /\ buf = <<>>)

\* memory m after the writes w, in order
RECURSIVE Replay(_, _)
Replay(m, w) ==
  IF w = <<>> THEN m
  ELSE Replay([m EXCEPT ![w[1][1]] = w[1][2]], Tail(w))

\* the position in inp of the first character left unread
Consumed == Len(inp) - Len(buf) + 1

\* the failing iteration wrote nothing once its last token was read, and
\* memory is what the earlier expressions left with the writes of the
\* failing one on top: nothing was rolled back
FailStopFrame ==
  /\ \A k \in 1..Len(wlog) : wlog[k][3] < Consumed
  /\ mem = Replay(pre.mem, wlog)
  /\ buf = SubSeq(inp, Consumed, Len(inp))

\* C8: when toml_load fails it returns -1 at the first rule violation (no
\* expression before the failing one held a lexical error that went
\* unreported), nothing is written after the failing token, and what the
\* earlier expressions wrote stays as written.
C8_FailsAtFirstViolation ==
  Failed => (~pre.lexerr /\ FailStopFrame)

\* C9: every cell of a destination whose key does not occur in the input
\* at the scope or element of that destination holds the value the caller
\* gave it before the call; a [[a]] header followed by no key/value leaves
\* every field of its element unchanged.
C9_AbsentKeysUntouched ==
  \A a \in Addrs \ named : mem[a] = mem0[a]

\* two [[a]] headers, key/values after the second one only: element 0 is
\* as the caller left it, element 1 was written
C9_Witness ==
  /\ pc = "done" /\ ret = 0
  /\ AotRun /\ TrailingAot(hdrs) = 2
  /\ ElemCells(0) \cap named = {}
  /\ \A a \in ElemCells(0) : mem[a] = 63
  /\ \E a \in ElemCells(1) : a \in named /\ mem[a] # mem0[a]

\* the kind of key name of a scope, "none" if there is no such key
KindOf(scope, name) ==
  IF name \in Names(scope) THEN Lookup(Schema[scope], name).type ELSE "none"

\* the kinds of the keys that hold one value
ScalarKinds == {"string_t", "integer_t", "long_t", "boolean_t"}

\* the kind of key name of the root scope, "none" if there is no such key
RootKind(name) ==
  IF name \in Names("root") THEN Lookup(Schema.root, name).type ELSE "none"

\* C10: a [key] header resolves key in the root scope whatever scope is
\* active, fails if key is unknown or not a table, and on success makes the
\* table's sub-schema the active scope of the key/values up to the next
\* header: a key of both the root scope and the table is written to the
\* table's destination after the header, to the root's before any header.
C10_TableHeader ==
  /\ act = "[" =>
       LET tk == Toks(inp) IN
         /\ (IsName(tk[2]) /\ RootKind(tk[2].text) # "table_t")
              => Failed /\ wlog = <<>>
         /\ ( /\ IsName(tk[2]) /\ RootKind(tk[2].text) = "table_t"
              /\ Len(tk) >= 3 /\ tk[3].tok = RBRACKET )
              => /\ pc = "loop" /\ wlog = <<>>
                 /\ curtab = Lookup(Schema.root, tk[2].text).keys
                 /\ array = NoArray
  /\ act = "kv" =>
       /\ curtab = ActiveScope
       /\ \A k \in 1..Len(wlog) :
            wlog[k][1] \in Addressed(inp, ActiveScope, OpenElem)
       /\ ( /\ pc = "loop" /\ Toks(inp)[3].tok \in {WORD, STRINGTOK}
            /\ KindOf(ActiveScope, Toks(inp)[1].text) \in ScalarKinds )
            => \E k \in 1..Len(wlog) :
                 wlog[k][1] = DestBase(ActiveScope, OpenElem, Toks(inp)[1].text)

\* after a [[a]] header and then a [t] header, n was written to t.n, and
\* the n of the root and of the element are as the caller left them
C10_Witness ==
  /\ act = "kv" /\ pc = "loop"
  /\ Len(hdrs) = 2 /\ hdrs[1] = <<"[[", K_a>> /\ hdrs[2] = <<"[", K_t>>
  /\ Toks(inp)[1].text = K_n
  /\ wlog # <<>> /\ \A k \in 1..Len(wlog) : wlog[k][1] = A_tn
  /\ mem[A_n] = mem0[A_n] /\ mem[A_a + OFF_n] = mem0[A_a + OFF_n]

\* C11: a key of kind table accepts only an inline table as its value and a
\* key of kind array only an array value: any other value for such a key,
\* an unquoted scalar included, makes toml_load return -1, and so does `[`
\* on a key that is not an array and `{` on a key that is not a table.
C11_TableArrayValueForm ==
  act = "kv" =>
    LET tk   == Toks(inp)
        kind == KindOf(ActiveScope, tk[1].text)
    IN  (Len(tk) >= 3 /\ tk[2].tok = EQUAL /\ kind # "none") =>
          /\ (kind = "table_t" /\ tk[3].tok \in {WORD, STRINGTOK, LBRACKET})
               => Failed
          /\ (kind = "array_t" /\ tk[3].tok \in {WORD, STRINGTOK, LBRACE})
               => Failed
          /\ (tk[3].tok = LBRACKET /\ kind # "array_t") => Failed
          /\ (tk[3].tok = LBRACE /\ kind # "table_t") => Failed

\* In starts with  name = [ ... : the positions, among its tokens, of the
\* elements of the array value, the brackets and commas left out
ElemPos(tk) ==
  IF Len(tk) >= 4 /\ tk[2].tok = EQUAL /\ tk[3].tok = LBRACKET
  THEN {i \in 4..Len(tk) :
          /\ tk[i].tok \in {WORD, STRINGTOK}
          /\ \A j \in 4..i : tk[j].tok \notin {RBRACKET, LBRACE, -1}}
  ELSE {}

\* the kind of the elements of array key name of a scope
ElemKind(scope, name) ==
  IF KindOf(scope, name) = "array_t"
  THEN Lookup(Schema[scope], name).array.type ELSE "none"

\* C12: every element of an array value must have the element kind of the
\* array: a quoted element in an array whose elements are not strings, and
\* an unquoted element in an array of strings, each make toml_load return
\* -1, so an array value that mixes quoted and unquoted elements is never
\* accepted.
C12_ArrayElementKind ==
  act = "kv" =>
    LET tk   == Toks(inp)
        kind == ElemKind(ActiveScope, tk[1].text)
    IN  /\ \A i \in ElemPos(tk) :
             /\ (tk[i].tok = STRINGTOK
                   /\ kind \in {"integer_t", "long_t", "boolean_t"}) => Failed
             /\ (tk[i].tok = WORD /\ kind = "string_t") => Failed
        /\ ( /\ kind \in {"integer_t", "long_t", "boolean_t", "string_t"}
             /\ \E i, j \in ElemPos(tk) :
                  tk[i].tok = STRINGTOK /\ tk[j].tok = WORD )
             => Failed

\* the tokens of tk from the value on hold no token c
Unclosed(tk, c) == \A j \in 4..Len(tk) : tk[j].tok # c

\* C13: if the input ends before the `]` that closes an array value or
\* before the `}` that closes an inline table, wherever inside the value
\* (right after the opener, after an element, after a comma), toml_load
\* returns -1.
C13_UnclosedValueFails ==
  (act = "kv" /\ ~lexerr) =>
    LET tk == Toks(inp)
    IN  (Len(tk) >= 4 /\ tk[2].tok = EQUAL) =>
          /\ (tk[3].tok = LBRACKET /\ Unclosed(tk, RBRACKET)) => Failed
          /\ (tk[3].tok = LBRACE /\ Unclosed(tk, RBRACE)) => Failed

\* what is left of the current line in b
LineRest(b) == SubSeq(b, 1, FirstNL(b, 1) - 1)

\* the expression read last started on the line of the one accepted before
SameLine == scan(LineRest(pre.buf), 1, TOKBUFSIZ).tok # -1

\* C14: a key/value expression or a header must be followed by a newline or
\* by the end of the input before the next expression starts: when a token
\* follows an accepted expression on the same line, toml_load returns -1.
C14_OneExpressionPerLine ==
  (act # "none" /\ SameLine) => Failed

\* In starts with the header [[a]]
IsAotHeader(In) ==
  LET tk == Toks(In) IN
    /\ Len(tk) >= 3 /\ tk[1].tok = LDOUBLEBRACKET
    /\ tk[2].tok \in {WORD, STRINGTOK} /\ tk[2].text = K_a
    /\ tk[3].tok = RDOUBLEBRACKET

\* the cells of the elements of a
AllElemCells == A_a..(A_a + ACap * StructSize - 1)

\* C15: the [[a]] header that would advance the element index of the array
\* of tables a to its capacity ACap makes toml_load return -1; the element
\* index that writes use is always below ACap: every write of a key/value
\* under a [[a]] header, or of an array value given to a, lands in an
\* element of a, and every published length is at most ACap.
C15_ArrayOfTablesCapacity ==
  /\ ( /\ act = "[[" /\ IsAotHeader(inp)
       /\ pre.loc.curkey = K_a /\ pre.loc.offset + 1 = ACap )
       => Failed /\ wlog = <<>>
  /\ TrailingAot(hdrs) <= ACap
  /\ (pc = "loop" /\ array.type = "table_t") => offset < array.maxlen
  /\ (act = "kv" /\ ActiveScope = "elem")
       => \A k \in 1..Len(wlog) : wlog[k][1] \in AllElemCells
  /\ (act = "kv" /\ ActiveScope = "root" /\ Toks(inp)[1].text = K_a)
       => \A k \in 1..Len(wlog) : wlog[k][1] \in AllElemCells \cup {A_acount}
  /\ \A k \in 1..Len(wlog) :
       wlog[k][1] = A_acount => (wlog[k][2] >= 0 /\ wlog[k][2] <= ACap)

\* ACap [[a]] headers were accepted and one more was refused
C15_Witness ==
  /\ act = "[[" /\ IsAotHeader(inp) /\ Failed
  /\ AotRun /\ TrailingAot(hdrs) = ACap
  /\ mem[A_acount] = ACap

\* the number a run of decimal digits stands for
RECURSIVE DecValue(_)
DecValue(text) ==
  IF text = <<>> THEN 0
  ELSE 10 * DecValue(SubSeq(text, 1, Len(text) - 1))
         + (text[Len(text)] - 48)

\* In starts with  name = [ {...}, ... : the positions, among its tokens,
\* of the `{` that open the elements of the array value
BracePos(tk) ==
  IF Len(tk) >= 4 /\ tk[2].tok = EQUAL /\ tk[3].tok = LBRACKET
  THEN {i \in 4..Len(tk) :
          /\ tk[i].tok = LBRACE
          /\ \A j \in 4..i : tk[j].tok \notin {RBRACKET, -1}}
  ELSE {}

\* the index in its array of the element at position i, E the positions of
\* the elements
IndexIn(E, i) == Cardinality({j \in E : j < i})

\* the text at address a of memory, up to its terminator
TextAt(a, n) == [c \in 1..n |-> mem[a + c - 1]]

\* C16: when load_array returns success the published length is the number
\* of elements of the array value in the input and is at most the capacity,
\* and the storage holds the decoded elements in input order from index 0
\* (decimal integers, true/false, strings; table elements by their n); the
\* array value [] publishes length 0 and writes no element.
C16_ArrayFilledInOrder ==
  (act = "kv" /\ pc = "loop" /\ Toks(inp)[3].tok = LBRACKET) =>
    LET tk   == Toks(inp)
        kind == ElemKind(ActiveScope, tk[1].text)
        arr  == Lookup(Schema[ActiveScope], tk[1].text).array
        E    == IF kind = "table_t" THEN BracePos(tk) ELSE ElemPos(tk)
    IN  /\ kind # "none"
        /\ mem[arr.count] = Cardinality(E)
        /\ Cardinality(E) <= arr.maxlen
        /\ E = {} => \A k \in 1..Len(wlog) : wlog[k][1] = arr.count
        /\ \A i \in E :
             LET idx == IndexIn(E, i) IN
               /\ (kind \in {"integer_t", "long_t"} /\ IsDigits(tk[i].text))
                    => mem[arr.integers + idx] = DecValue(tk[i].text)
               /\ kind = "boolean_t"
                    => /\ tk[i].text \in {T_true, T_false}
                       /\ mem[arr.booleans + idx]
                            = (IF tk[i].text = T_true THEN 1 ELSE 0)
               /\ kind = "string_t"
                    => LET a == mem[arr.ptrs + idx] IN
                         /\ a >= arr.store
                         /\ a + Len(tk[i].text) < arr.store + arr.storelen
                         /\ TextAt(a, Len(tk[i].text)) = tk[i].text
                         /\ mem[a + Len(tk[i].text)] = NUL
               /\ ( /\ kind = "table_t" /\ tk[i + 1].text = K_n
                    /\ IsDigits(tk[i + 3].text) )
                    => mem[arr.base + idx * arr.structsize + OFF_n]
                         = DecValue(tk[i + 3].text)

\* an array of integers filled to its capacity
C16_Witness ==
  /\ act = "kv" /\ pc = "loop" /\ Toks(inp)[3].tok = LBRACKET
  /\ ElemKind(ActiveScope, Toks(inp)[1].text) = "integer_t"
  /\ Cardinality(ElemPos(Toks(inp))) = VCap
  /\ mem[A_vcount] = VCap
  /\ \A i \in 0..(VCap - 1) : mem[A_v + i] = (IF i % 2 = 0 THEN 1 ELSE 2)

\* the step wrote cell a
Wrote(a) == \E k \in 1..Len(wlog) : wlog[k][1] = a

\* C17: a boolean key and every element of an array of booleans accept
\* only the exact tokens true and false, which store true resp. false; any
\* other unquoted token makes toml_load return -1 and the key, resp. the
\* element and the length of the array, are not written.
C17_BooleanTokens ==
  act = "kv" =>
    LET tk   == Toks(inp)
        name == tk[1].text
        E    == ElemPos(tk)
    IN  /\ ( /\ KindOf(ActiveScope, name) = "boolean_t"
             /\ Len(tk) >= 3 /\ tk[2].tok = EQUAL /\ tk[3].tok = WORD )
             => LET a == DestBase(ActiveScope, OpenElem, name) IN
                  IF tk[3].text = T_true
                  THEN pc = "loop" /\ wlog = <<<<a, 1, tk[3].p>>>>
                  ELSE IF tk[3].text = T_false
                  THEN pc = "loop" /\ wlog = <<<<a, 0, tk[3].p>>>>
                  ELSE Failed /\ wlog = <<>>
        /\ ElemKind(ActiveScope, name) = "boolean_t"
             => LET arr == Lookup(Schema[ActiveScope], name).array IN
                  /\ \A i \in E :
                       (tk[i].tok = WORD
                          /\ tk[i].text \notin {T_true, T_false})
                         => /\ Failed
                            /\ ~Wrote(arr.booleans + IndexIn(E, i))
                            /\ ~Wrote(arr.count)
                  /\ pc = "loop"
                       => \A i \in E :
                            /\ tk[i].text \in {T_true, T_false}
                            /\ mem[arr.booleans + IndexIn(E, i)]
                                 = (IF tk[i].text = T_true THEN 1 ELSE 0)

\* an array of booleans whose second element is neither true nor false:
\* the first element was stored, then toml_load failed
C17_Witness ==
  /\ act = "kv" /\ Failed
  /\ ElemKind(ActiveScope, Toks(inp)[1].text) = "boolean_t"
  /\ \E i \in ElemPos(Toks(inp)) :
       /\ IndexIn(ElemPos(Toks(inp)), i) = 1
       /\ Toks(inp)[i].tok = WORD
       /\ Toks(inp)[i].text \notin {T_true, T_false}
  /\ wlog # <<>> /\ \A k \in 1..Len(wlog) : wlog[k][1] = A_f

\* the number the digits of text stand for in the given base
RECURSIVE BaseValue(_, _)
BaseValue(text, base) ==
  IF text = <<>> THEN 0
  ELSE base * BaseValue(SubSeq(text, 1, Len(text) - 1), base)
         + DigitVal(text[Len(text)])

\* text is a non-empty run of digits of the given base
IsBaseDigits(text, base) ==
  text # <<>> /\ \A i \in 1..Len(text) : DigitVal(text[i]) < base

\* the base that the prefix of an integer literal selects
RadixOf(text) ==
  IF Len(text) >= 2 /\ text[1] = 48 /\ text[2] = 120 THEN 16
  ELSE IF Len(text) >= 2 /\ text[1] = 48 /\ text[2] = 111 THEN 8
  ELSE IF Len(text) >= 2 /\ text[1] = 48 /\ text[2] = 98 THEN 2
  ELSE 10

\* the digits of an integer literal, its prefix left out
DigitsOf(text) ==
  IF RadixOf(text) = 10 THEN text ELSE SubSeq(text, 3, Len(text))

\* text is an unsigned integer literal: 0x, 0o or 0b and digits of that
\* base, or decimal digits without a leading zero
IsPrefixedLiteral(text) ==
  /\ IsBaseDigits(DigitsOf(text), RadixOf(text))
  /\ RadixOf(text) = 10 => (text = <<48>> \/ text[1] # 48)

\* C18: an integer token is converted with the base that its prefix
\* selects, 0x hexadecimal, 0o octal, 0b binary, decimal otherwise: given
\* to an integer key it is accepted and the key holds that value, so 0xFF,
\* 0o17 and 0b101 bind 255, 15 and 5.
C18_PrefixRadix ==
  act = "kv" =>
    LET tk   == Toks(inp)
        name == tk[1].text
    IN  ( /\ KindOf(ActiveScope, name) \in {"integer_t", "long_t"}
          /\ Len(tk) >= 3 /\ tk[2].tok = EQUAL /\ tk[3].tok = WORD
          /\ IsPrefixedLiteral(tk[3].text)
          /\ Len(tk[3].text) <= 8 )
          => /\ pc = "loop"
             /\ mem[DestBase(ActiveScope, OpenElem, name)]
                  = BaseValue(DigitsOf(tk[3].text), RadixOf(tk[3].text))

\* text is a decimal integer literal: an optional sign, then decimal
\* digits without a leading zero
IsSignedDecimal(text) ==
  LET d == IF text # <<>> /\ text[1] \in {43, 45} THEN Tail(text) ELSE text
  IN  IsDigits(d) /\ (d = <<48>> \/ d[1] # 48)

\* the digits of a decimal integer literal, its sign left out
Magnitude(text) == IF text[1] \in {43, 45} THEN Tail(text) ELSE text

\* digit strings a and b of the same length: a <= b as numbers
DigitsLE(a, b) ==
  \/ a = b
  \/ \E i \in 1..Len(a) : a[i] < b[i] /\ \A j \in 1..(i - 1) : a[j] = b[j]

\* the decimal digits of LONG_MAX and of -LONG_MIN
MaxDigits == Bytes(<<"2", "1", "4", "7", "4", "8", "3", "6", "4", "7">>)
MinDigits == Bytes(<<"2", "1", "4", "7", "4", "8", "3", "6", "4", "8">>)

\* the value of the decimal integer literal text is within the range of
\* long, decided on its digits
InLongRange(text) ==
  LET d   == Magnitude(text)
      lim == IF text[1] = 45 THEN MinDigits ELSE MaxDigits
  IN  Len(d) < Len(lim) \/ (Len(d) = Len(lim) /\ DigitsLE(d, lim))

\* the value of a decimal integer literal within the range of long
LiteralValue(text) ==
  IF text[1] # 45 THEN DecValue(Magnitude(text))
  ELSE IF Magnitude(text) = MinDigits THEN -LONG_MAX - 1
  ELSE -DecValue(Magnitude(text))

\* C20: a decimal integer token whose value is within [LONG_MIN, LONG_MAX],
\* the two ends included, given to a long key is accepted and the key
\* holds exactly that value; one whose value is outside makes toml_load
\* return -1 and the key is not written.  (long is 32 bits wide here.)
C20_LongRange ==
  act = "kv" =>
    LET tk   == Toks(inp)
        name == tk[1].text
    IN  ( /\ KindOf(ActiveScope, name) = "long_t"
          /\ Len(tk) >= 3 /\ tk[2].tok = EQUAL /\ tk[3].tok = WORD
          /\ IsSignedDecimal(tk[3].text) )
          => LET a == DestBase(ActiveScope, OpenElem, name) IN
               IF InLongRange(tk[3].text)
               THEN /\ pc = "loop"
                    /\ wlog = <<<<a, LiteralValue(tk[3].text), tk[3].p>>>>
                    /\ mem[a] = LiteralValue(tk[3].text)
               ELSE Failed /\ wlog = <<>> /\ mem[a] = pre.mem[a]

\* the smallest long was given to the long key and the key holds it
C20_Witness ==
  /\ act = "kv" /\ pc = "loop"
  /\ KindOf(ActiveScope, Toks(inp)[1].text) = "long_t"
  /\ Toks(inp)[3].text = <<45>> \o MinDigits
  /\ mem[A_l] = LONG_MIN /\ mem0[A_l] # LONG_MIN

\* the first index i >= p of text with a character that is not in chars,
\* or Len(text) + 1
FirstNotIn(text, p, chars) ==
  CHOOSE i \in p..(Len(text) + 1) :
    /\ (i = Len(text) + 1 \/ text[i] \notin chars)
    /\ \A j \in p..(i - 1) : text[j] \in chars

\* where the item of the last call starts: the blanks before it skipped
ItemStart == FirstNotIn(lexer.input, lexcall.from, {32, 9})

\* where the number that starts at ItemStart ends: its sign, digits and
\* underscores
NumberEnd ==
  LET t == lexer.input
      p == ItemStart
  IN  FirstNotIn(t, IF p <= Len(t) /\ t[p] \in {43, 45} THEN p + 1 ELSE p,
                 Digits \cup {95})

\* the text of the number that starts at ItemStart
NumberText == SubSeq(lexer.input, ItemStart, NumberEnd - 1)

\* text is a decimal integer literal: an optional sign, then digits with
\* single underscores between them, no leading zero before another digit
IsDecimalLiteral(text) ==
  LET b == IF text # <<>> /\ text[1] \in {43, 45} THEN Tail(text) ELSE text
  IN  /\ b # <<>> /\ isdigit(b[1]) /\ isdigit(b[Len(b)])
      /\ \A i \in 1..Len(b) : isdigit(b[i]) \/ b[i] = 95
      /\ \A i \in 1..(Len(b) - 1) : ~(b[i] = 95 /\ b[i + 1] = 95)
      /\ Len(b) > 1 => b[1] # 48

\* the number is followed by the end of the text or by a character that
\* ends a value
NumberEnds ==
  \/ NumberEnd = Len(lexer.input) + 1
  \/ lexer.input[NumberEnd] \in {10, 13, 32, 9, 44, 93, 125, 35}

\* text without its underscores
RECURSIVE NoUnderscores(_)
NoUnderscores(text) ==
  IF text = <<>> THEN <<>>
  ELSE IF text[1] = 95 THEN NoUnderscores(Tail(text))
  ELSE <<text[1]>> \o NoUnderscores(Tail(text))

\* C19: for a decimal integer literal with underscores between its digits,
\* with or without a sign, lex_scan_next returns lex_INTEGER and the text
\* of the item is the literal with every underscore removed and every
\* other character kept, so 5_349_221 gives the text of 5349221 and
\* -53_49_221 that of -5349221.
C19_UnderscoresRemoved ==
  (lexcall.n >= 1 /\ IsDecimalLiteral(NumberText) /\ NumberEnds) =>
    /\ lexcall.ret = lex_INTEGER
    /\ lexer.item = [type |-> lex_INTEGER, val |-> NoUnderscores(NumberText)]

\* -53_49_221 was scanned and the item holds -5349221
C19_Witness ==
  /\ lexcall.n = 1
  /\ lexer.input = Bytes(<<"-", "5", "3", "_", "4", "9", "_", "2", "2", "1">>)
  /\ lexer.item.type = lex_INTEGER
  /\ lexer.item.val = Bytes(<<"-", "5", "3", "4", "9", "2", "2", "1">>)

\* the item of the last call opens a multiline basic string
MlOpen ==
  /\ lexcall.n >= 1
  /\ ItemStart + 2 <= Len(lexer.input)
  /\ \A i \in ItemStart..(ItemStart + 2) : lexer.input[i] = 34

\* the first index from p on where three double quotes in a row start, or
\* Len(input) + 1 when there is no such index
MlRunStart(p) ==
  LET t == lexer.input IN
    CHOOSE i \in p..(Len(t) + 1) :
      /\ (i = Len(t) + 1 \/
          (i + 2 <= Len(t) /\ \A j \in i..(i + 2) : t[j] = 34))
      /\ \A k \in p..(i - 1) :
           ~(k + 2 <= Len(t) /\ \A j \in k..(k + 2) : t[j] = 34)

\* the length of the run of double quotes that starts at MlRunStart
MlRunLen ==
  FirstNotIn(lexer.input, MlRunStart(ItemStart + 3), {34})
    - MlRunStart(ItemStart + 3)

\* the text between the opening quotes and that run
MlContent ==
  SubSeq(lexer.input, ItemStart + 3, MlRunStart(ItemStart + 3) - 1)

\* C21: in a multiline basic string whose content has no backslash and no
\* end of line, the first run of three or more double quotes decides the
\* token: a run of 3 ends the string with the content before it, a run of
\* 4 with that content and one double quote, a run of 5 with that content
\* and two double quotes, a run of 6 or more gives lex_ERROR; the runs of
\* 1 or 2 double quotes before it, each followed by another character,
\* are part of the content.
C21_MlStringQuoteRuns ==
  (/\ MlOpen
   /\ MlRunStart(ItemStart + 3) <= Len(lexer.input)
   /\ \A i \in 1..Len(MlContent) : MlContent[i] \notin {92, 10, 13}) =>
    IF MlRunLen <= 5
    THEN /\ lexcall.ret = lex_STRING
         /\ lexer.item = [type |-> lex_STRING,
                          val |-> MlContent \o Rep(34, MlRunLen - 3)]
    ELSE lexcall.ret = lex_ERROR

\* a"b followed by a run of five double quotes was scanned: the item holds
\* a"b""
C21_Witness ==
  /\ MlOpen /\ lexcall.n = 1
  /\ MlContent = <<97, 34, 98>> /\ MlRunLen = 5
  /\ lexer.item = [type |-> lex_STRING, val |-> <<97, 34, 98, 34, 34>>]

\* two double quotes, then a, then six double quotes gave lex_ERROR
C21_WitnessTooMany ==
  /\ MlOpen /\ lexcall.n = 1
  /\ MlContent = <<34, 34, 97>> /\ MlRunLen = 6
  /\ lexcall.ret = lex_ERROR

\* the item of the last call starts with the prefix 0x, 0o or 0b
PrefixAt ==
  /\ ItemStart + 1 <= Len(lexer.input)
  /\ lexer.input[ItemStart] = 48
  /\ lexer.input[ItemStart + 1] \in {120, 111, 98}

\* the item of the last call starts as an identifier does
IdentAt ==
  /\ ItemStart <= Len(lexer.input)
  /\ (isalpha(lexer.input[ItemStart]) \/ lexer.input[ItemStart] = 95)

\* the index after the last character of the number or identifier that
\* starts at ItemStart
TokenEnd ==
  LET t == lexer.input IN
    IF PrefixAt
    THEN FirstNotIn(t, ItemStart + 2,
                    {95} \cup (IF t[ItemStart + 1] = 120 THEN XDigits
                               ELSE IF t[ItemStart + 1] = 111 THEN OctDigits
                               ELSE BinDigits))
    ELSE IF IdentAt THEN FirstNotIn(t, ItemStart, IdentChars)
    ELSE NumberEnd

\* C27: after lex_scan_next has returned a number (decimal, 0x, 0o or 0b)
\* or an identifier, the position is the one right after the last
\* character of that token: the character that ends the token is not
\* consumed and is what the next call starts with.
C27_TokenEndNotConsumed ==
  (/\ lexcall.n >= 1
   /\ \/ /\ lexcall.ret = lex_INTEGER
         /\ PrefixAt \/ (IsDecimalLiteral(NumberText) /\ NumberEnds)
      \/ /\ lexcall.ret \in {lex_BARE_KEY, lex_BOOL, lex_FLOAT}
         /\ IdentAt) =>
    lexer.ptr = TokenEnd

\* the number of '\n' among the first k characters of the input
NlCount(k) == Cardinality({i \in 1..k : lexer.input[i] = 10})

\* the index after the line end that starts at p: two characters for
\* \r\n, one for \r and for \n
LineEndAfter(p) ==
  IF lexer.input[p] = 13 /\ p + 1 <= Len(lexer.input)
       /\ lexer.input[p + 1] = 10
  THEN p + 2 ELSE p + 1

\* C28: a call of lex_scan_next that starts at \r, \n or \r\n returns one
\* lex_NEWLINE for it and stops after it, and after every call lineno is 1
\* plus the number of '\n' among the characters consumed so far.
C28_NewlineAndLineno ==
  lexcall.n >= 1 =>
    /\ lexer.lineno = 1 + NlCount(lexer.ptr - 1)
    /\ (ItemStart <= Len(lexer.input) /\ lexer.input[ItemStart] \in {10, 13}) =>
         /\ lexcall.ret = lex_NEWLINE
         /\ lexer.ptr = LineEndAfter(ItemStart)

(***************************************************************************)
(* mtoml.c: documents of key = value lines on the keys of the root schema. *)
(***************************************************************************)
\* the kind of key name in the root schema of the flat decoder
MRootKind(name) == Lookup(MSchema.root, name).type

\* text is a real literal: an optional sign, digits, a point, and one to
\* RealDigits digits
IsRealLiteral(text) ==
  LET b  == IF text # <<>> /\ text[1] \in {43, 45} THEN Tail(text) ELSE text
      pt == FirstNotIn(b, 1, Digits)
  IN  /\ pt > 1 /\ pt < Len(b) /\ b[pt] = 46
      /\ Len(b) - pt <= RealDigits
      /\ \A i \in (pt + 1)..Len(b) : isdigit(b[i])

\* the number a real literal stands for, in units of 10^-RealDigits
RealValue(text) ==
  LET b  == IF text[1] \in {43, 45} THEN Tail(text) ELSE text
      pt == FirstNotIn(b, 1, Digits)
      m  == DecValue(SubSeq(b, 1, pt - 1)) * Pow10(RealDigits)
              + DecValue(SubSeq(b, pt + 1, Len(b)))
                  * Pow10(RealDigits - (Len(b) - pt))
  IN  IF text[1] = 45 THEN 0 - m ELSE m

\* the value token v has the kind of the descriptor of key name
WellKinded(name, v) ==
  \/ /\ MRootKind(name) = "string_t"
     /\ v.tok = STRINGTOK /\ Len(v.text) < Lookup(MSchema.root, name).len
  \/ /\ MRootKind(name) = "integer_t"
     /\ v.tok = WORD /\ IsSignedDecimal(v.text) /\ InLongRange(v.text)
  \/ /\ MRootKind(name) = "boolean_t"
     /\ v.tok = WORD /\ v.text \in {T_true, T_false}
  \/ /\ MRootKind(name) = "real_t"
     /\ v.tok = WORD /\ IsRealLiteral(v.text)

\* the destination of key name reads as the decoded value of token v
HoldsValue(name, v) ==
  LET a == Lookup(MSchema.root, name).addr IN
    IF MRootKind(name) = "string_t"
    THEN /\ \A i \in 1..Len(v.text) : mem[a + i - 1] = v.text[i]
         /\ mem[a + Len(v.text)] = NUL
    ELSE IF MRootKind(name) = "integer_t"
    THEN mem[a] = LiteralValue(v.text)
    ELSE IF MRootKind(name) = "boolean_t"
    THEN mem[a] = (IF v.text = T_true THEN 1 ELSE 0)
    ELSE mem[a] = RealValue(v.text)

\* the iteration read  name = value  in the root scope, with a value of the
\* kind of name
GoodAssignment ==
  /\ act = "kv" /\ pre.loc.curtab = "root"
  /\ LET tk == Toks(inp) IN
       /\ Len(tk) >= 3 /\ tk[1].tok = WORD /\ tk[2].tok = EQUAL
       /\ WellKinded(tk[1].text, tk[3])

\* C22: in a document of key = value lines whose keys are in the root
\* schema and whose values have the kind of their descriptor (a quoted
\* string shorter than the capacity, an integer, true/false, a real), every
\* assignment succeeds, leaves the decoded value in the destination of its
\* key and writes no other destination, and toml_load returns 0 at the end.
C22_WellKindedDocument ==
  /\ GoodAssignment =>
       LET tk == Toks(inp)
           a  == Lookup(MSchema.root, tk[1].text).addr
           n  == IF MRootKind(tk[1].text) = "string_t"
                 THEN Lookup(MSchema.root, tk[1].text).len ELSE 1
       IN  /\ pc = "loop" /\ ret = 0
           /\ HoldsValue(tk[1].text, tk[3])
           /\ \A c \in Addrs : c \notin a..(a + n - 1) => mem[c] = pre.mem[c]
  /\ (pc = "done" /\ act = "end") => ret = 0

\* a string of capacity-1 characters was given to a buffer that held no NUL
C22_Violation ==
  /\ GoodAssignment /\ pc = "loop"
  /\ Toks(inp)[3].tok = STRINGTOK /\ Len(Toks(inp)[3].text) = SLen - 1
  /\ mem0[A_s] # NUL

\* C22 for values that fit in the token buffer, but for the last byte of
\* a string buffer, which the decoder leaves as the caller had it
C22_ButLastByte ==
  (GoodAssignment /\ Len(Toks(inp)[3].text) < MTOKBUFSIZ) =>
    LET tk == Toks(inp)
        d  == Lookup(MSchema.root, tk[1].text)
    IN  /\ pc = "loop" /\ ret = 0
        /\ \/ HoldsValue(tk[1].text, tk[3])
           \/ /\ tk[3].tok = STRINGTOK /\ Len(tk[3].text) = d.len - 1
              /\ \A i \in 1..(d.len - 1) : mem[d.addr + i - 1] = tk[3].text[i]
              /\ mem[d.addr + d.len - 1] = mem0[d.addr + d.len - 1]

\* device/count/flag/speed of the example: every kind was assigned once
C22_AllKinds ==
  /\ pc = "done" /\ ret = 0 /\ curtab = "root"
  /\ mem[A_n] = 0 - 4 /\ mem[A_b] = 1 /\ mem[A_r] = 376 * Pow10(RealDigits - 2)
  /\ mem[A_s] = 97 /\ mem[A_s + 1] = NUL

(***************************************************************************)
(* Two calls of toml_load against one call alone.                          *)
(***************************************************************************)
\* toml_load alone on the stream b: what it returns, its writes and the
\* memory it leaves
RECURSIVE toml_load_alone(_, _, _, _, _)
toml_load_alone(b, e, loc, m, w) ==
  LET t == Top(b)
      o == toml_load_iter(b, e, m, loc, t)
  IN  IF o.rc = -1 \/ t.tok = -1
      THEN [ret |-> o.rc, w |-> w \o Writes(o.x.w), mem |-> o.x.mem]
      ELSE toml_load_alone(SubSeq(b, o.x.p, Len(b)), o.x.eof, o.loc, o.x.mem,
                           w \o Writes(o.x.w))

\* the memory of the caller before the two calls
ParMem0 == [a \in Addrs |-> calls.fill]

Alone(i) == toml_load_alone(calls.doc[i], FALSE, EntryLocals, ParMem0, <<>>)

\* C23: the cursor state of toml_load is local to the call and is (root
\* scope, no array, index 0, no current key) at entry; whatever the
\* interleaving of the iterations of two calls with their own input and
\* disjoint destinations, each call returns what it returns alone, makes
\* the same writes and leaves the same values in its destinations.
C23_CallsIndependent ==
  \A i \in CallIds :
    /\ calls.st[i].n = 0 => calls.st[i].loc = EntryLocals
    /\ calls.st[i].pc = "done" =>
         /\ calls.st[i].ret = Alone(i).ret
         /\ calls.st[i].w = Alone(i).w
         /\ View(calls, i) = Alone(i).mem

\* both calls are over, each was overtaken by the other between two of its
\* iterations, one had opened element 1 of a and the other the table t
C23_Witness ==
  /\ \A i \in CallIds : calls.st[i].pc = "done" /\ calls.st[i].cut
  /\ calls.st[1].loc.offset = 1 /\ calls.st[1].w # <<>>
  /\ calls.st[2].loc.curtab = "t" /\ calls.st[2].w # <<>>

(***************************************************************************)
(* [[key]] headers and the [table] headers between them.                   *)
(***************************************************************************)
\* the [[key]] headers among the headers accepted so far
ArrayHeaders == SelectSeq(hdrs, LAMBDA h : h[1] = "[[")

\* C24: a [table] header between two [[key]] headers of the same key does
\* not disturb the cursor of the array: when every [[...]] header so far
\* named the same key, an accepted [[key]] header addresses the element
\* after those already opened (the k-th one addresses element k-1 and
\* publishes length k), and the published length does not decrease.
C24_TableHeaderKeepsCursor ==
  ( /\ act = "[[" /\ pc = "loop"
    /\ \A k \in 1..Len(ArrayHeaders) : ArrayHeaders[k][2] = K_a ) =>
      /\ offset = Len(ArrayHeaders) - 1
      /\ mem[A_acount] = Len(ArrayHeaders)
      /\ Len(ArrayHeaders) > 1 => mem[A_acount] >= pre.mem[A_acount]

\* [[a]] was accepted after [[a]], [[a]] and a [table]
C24_Violation ==
  /\ act = "[[" /\ pc = "loop"
  /\ Len(hdrs) = 4 /\ hdrs[3][1] = "[" /\ Len(ArrayHeaders) = 3
  /\ offset = 1 /\ mem[A_acount] = 2

\* C24 for [[key]] headers with no [table] header since the first of them
C24_NoTableBetween ==
  ( /\ act = "[[" /\ pc = "loop"
    /\ \A k \in 1..Len(ArrayHeaders) : ArrayHeaders[k][2] = K_a
    /\ \A j \in 1..Len(hdrs) :
         hdrs[j][1] = "[" => \A k \in 1..j : hdrs[k][1] = "[" ) =>
      /\ offset = Len(ArrayHeaders) - 1
      /\ mem[A_acount] = Len(ArrayHeaders)

\* the cell that holds the published length of the array of tables name
CountCell(name) == Lookup(Schema.root, name).array.count

\* a [table] header was accepted after the last [[...]] header but one
TableSincePrev ==
  \E j \in 1..(Len(hdrs) - 1) :
    /\ hdrs[j][1] = "["
    /\ \E i \in 1..j : hdrs[i][1] = "[["

\* C25: an accepted [[key]] header that names the key of the previous
\* [[...]] header advances the element index by one; one that names another
\* key, or the first one, restarts the index at zero and makes its key the
\* current one.  The header publishes index + 1 as the length of its array
\* and leaves the length of the other array alone: in [[a]] [[a]] [[e]]
\* [[a]] the [[e]] header opens e[0] with length 1 and the last [[a]]
\* header opens a[0] with length 1.
C25_IndexAdvanceOrRestart ==
  (act = "[[" /\ pc = "loop") =>
    LET k    == Len(ArrayHeaders)
        name == ArrayHeaders[k][2]
        same == k >= 2 /\ ArrayHeaders[k - 1][2] = name
    IN  /\ curkey = name
        /\ offset = (IF same THEN pre.loc.offset + 1 ELSE 0)
        /\ mem[CountCell(name)] = offset + 1
        /\ (same /\ ~TableSincePrev)
             => mem[CountCell(name)] = pre.mem[CountCell(name)] + 1
        /\ \A other \in {K_a, K_e} \ {name} :
             mem[CountCell(other)] = pre.mem[CountCell(other)]

\* [[a]] [[a]] [[e]] [[a]]: a[0] is open again and both lengths are 1
C25_Witness ==
  /\ act = "[[" /\ pc = "loop"
  /\ hdrs = << <<"[[", K_a>>, <<"[[", K_a>>, <<"[[", K_e>>, <<"[[", K_a>> >>
  /\ offset = 0 /\ curkey = K_a
  /\ mem[A_acount] = 1 /\ mem[A_ecount] = 1

(***************************************************************************)
(* Where a key/value is written.                                           *)
(***************************************************************************)
\* the cells of the field or variable of descriptor d, for addresses that
\* count from base
FieldCells(base, d) ==
  (base + d.addr)..(base + d.addr + (IF d.type = "string_t" THEN d.len ELSE 1) - 1)

\* the array of tables named by the last header
OpenArray == Lookup(Schema.root, hdrs[Len(hdrs)][2]).array

\* where element i of the array of tables arr starts
ElemBase(arr, i) == arr.base + i * arr.structsize

\* C26: a key/value in the scope opened by an [[arr]] header at element
\* index i (the published length minus one), and a key/value of the i-th
\* inline table of an array-of-tables value, is written at
\* base + i * structsize + field offset and stays inside that field; a
\* key/value of the root scope or of the scope of a [table] header, also
\* after an [[arr]] header, is written at the descriptor's stored pointer.
C26_AddressResolution ==
  (act = "kv" /\ pc = "loop") =>
    LET tk    == Toks(inp)
        scope == ActiveScope
        d     == Lookup(Schema[scope], tk[1].text)
    IN  /\ scope \in {"elem", "eelem"} =>
             /\ wlog # <<>>
             /\ wlog[1][1] = ElemBase(OpenArray, OpenElem) + d.addr
             /\ \A k \in 1..Len(wlog) :
                  wlog[k][1] \in FieldCells(ElemBase(OpenArray, OpenElem), d)
        /\ (scope \in {"root", "t"} /\ d.type \in ScalarKinds) =>
             /\ wlog # <<>>
             /\ wlog[1][1] = d.addr
             /\ \A k \in 1..Len(wlog) : wlog[k][1] \in FieldCells(0, d)
        /\ (d.type = "array_t" /\ d.array.type = "table_t") =>
             /\ \A j \in ArrTabKeyPos(tk) :
                  \E k \in 1..Len(wlog) :
                    /\ wlog[k][3] = tk[j + 2].p
                    /\ wlog[k][1] = ElemBase(d.array, ElemOf(tk, j))
                         + Lookup(Schema[d.array.subtype], tk[j].text).addr
             /\ \A k \in 1..Len(wlog) :
                  \/ wlog[k][1] = d.array.count
                  \/ \E j \in ArrTabKeyPos(tk) :
                       /\ wlog[k][3] = tk[j + 2].p
                       /\ wlog[k][1] \in
                            FieldCells(ElemBase(d.array, ElemOf(tk, j)),
                                       Lookup(Schema[d.array.subtype],
                                              tk[j].text))

\* a key/value after the second [[a]] header was written to a[1].n
C26_Witness ==
  /\ act = "kv" /\ pc = "loop" /\ ActiveScope = "elem" /\ OpenElem = 1
  /\ Toks(inp)[1].text = K_n
  /\ wlog = << <<A_a + StructSize + OFF_n, mem[A_a + StructSize + OFF_n],
                 Toks(inp)[3].p>> >>

\* a key/value of the table t, after an [[a]] header, was written to t.n
C26_WitnessTable ==
  /\ act = "kv" /\ pc = "loop"
  /\ hdrs = << <<"[[", K_a>>, <<"[", K_t>> >>
  /\ wlog # <<>> /\ wlog[1][1] = A_tn

\* the second inline table of a = [{n=1},{n=2}] was written to a[1].n
C26_WitnessInline ==
  /\ act = "kv" /\ pc = "loop" /\ hdrs = <<>>
  /\ Toks(inp)[1].text = K_a /\ Cardinality(ArrTabKeyPos(Toks(inp))) = 2
  /\ \E k \in 1..Len(wlog) : wlog[k][1] = A_a + StructSize + OFF_n

(***************************************************************************)
(* Tokens that only start like an integer.                                 *)
(***************************************************************************)
\* text is an optional sign and a decimal number followed by text that is
\* not numeric, as 12abc and 5_349_221
HasTrailingText(text) ==
  LET b == IF text # <<>> /\ text[1] \in {43, 45} THEN Tail(text) ELSE text
  IN  /\ b # <<>> /\ b[1] >= 49 /\ b[1] <= 57
      /\ \E i \in 2..Len(b) : ~isdigit(b[i])

\* C29: an unquoted token given to an integer key, or as an element of an
\* array of integers, is accepted only if the whole token is an integer
\* literal: a token with text after its digits (12abc, 5_349_221) makes
\* toml_load return -1, and the value of its digits is not bound.
C29_WholeTokenInteger ==
  act = "kv" =>
    LET tk   == Toks(inp)
        name == tk[1].text
    IN  /\ ( /\ KindOf(ActiveScope, name) \in {"integer_t", "long_t"}
             /\ Len(tk) >= 3 /\ tk[2].tok = EQUAL /\ tk[3].tok = WORD
             /\ HasTrailingText(tk[3].text) )
             => /\ Failed
                /\ mem[DestBase(ActiveScope, OpenElem, name)]
                     = pre.mem[DestBase(ActiveScope, OpenElem, name)]
        /\ ( /\ ElemKind(ActiveScope, name) = "integer_t"
             /\ Len(tk) >= 3 /\ tk[2].tok = EQUAL /\ tk[3].tok = LBRACKET
             /\ \E i \in ElemPos(tk) :
                  tk[i].tok = WORD /\ HasTrailingText(tk[i].text) )
             => Failed

\* n = 12abc was accepted and n holds 12
C29_Violation ==
  /\ act = "kv" /\ pc = "loop" /\ ActiveScope = "root"
  /\ Toks(inp)[1].text = K_n
  /\ Toks(inp)[3].text = Bytes(<<"1", "2", "a", "b", "c">>)
  /\ mem[A_n] = 12 /\ mem0[A_n] # 12

\* v = [7,12abc] was accepted and v holds 7, 12
C29_ViolationArray ==
  /\ act = "kv" /\ pc = "loop" /\ Toks(inp)[1].text = K_v
  /\ mem[A_v] = 7 /\ mem[A_v + 1] = 12 /\ mem[A_vcount] = 2

\* n = 5_349_221 was accepted and n holds 5
C29_ViolationUnderscore ==
  /\ act = "kv" /\ pc = "loop" /\ Toks(inp)[1].text = K_n
  /\ Len(Toks(inp)[3].text) = 9 /\ Toks(inp)[3].text[2] = 95
  /\ mem[A_n] = 5

(***************************************************************************)
(* The bytes that scan_word writes to the token buffer.                    *)
(***************************************************************************)
\* C30: scan_word never writes outside the token buffer of its caller,
\* whatever the input and the template, also when the key assigned is a
\* string descriptor whose capacity is larger than the token buffer:
\* every scan of toml.c writes at most TOKBUFSIZ bytes.
C30_ScanWordInBuffer == tokhi <= TOKBUFSIZ

\* the same for mtoml.c, whose token buffer has MTOKBUFSIZ bytes
C30_ScanWordInBufferM == tokhi <= MTOKBUFSIZ

\* the value of g, TOKBUFSIZ characters, was stored with its terminator
C30_Violation ==
  /\ act = "kv" /\ Toks(inp)[1].text = K_g
  /\ tokhi = TOKBUFSIZ + 1

\* every scan whose limit is the size of the token buffer stays inside it
C30_OtherScans ==
  (act = "kv" /\ KindOf(pre.loc.curtab, Toks(inp)[1].text) = "string_t"
     /\ Lookup(Schema[pre.loc.curtab], Toks(inp)[1].text).len > TOKBUFSIZ)
  \/ tokhi <= TOKBUFSIZ


(***************************************************************************)
(* C31: lex_scan_next keeps its stores inside item.val.                    *)
(***************************************************************************)

\* the text that the call scanned starts a string, an identifier, a number
\* or a date that has k characters or more
LongTokenAt(k) ==
  /\ ItemStart + k - 1 <= Len(lexer.input)
  /\ \/ \A i \in ItemStart..(ItemStart + k - 1) :
          lexer.input[i] \in IdentChars \ {45}
     \/ /\ lexer.input[ItemStart] \in {34, 39}
        /\ \A i \in (ItemStart + 1)..(ItemStart + k) :
             i <= Len(lexer.input) /\ lexer.input[i] \in IdentChars

\* C31: no call of lex_scan_next stores a byte of item.val at an index of
\* ITEMSIZ or more, and a call whose string, identifier, number or date
\* does not fit in item.val (ITEMSIZ characters or more, the terminator
\* needs one) returns lex_ERROR.
C31_ItemValInBounds ==
  lexcall.n >= 1 =>
    /\ lexer.hi <= ITEMSIZ
    /\ LongTokenAt(ITEMSIZ) => lexcall.ret = lex_ERROR

\* a token of ITEMSIZ - 1 characters fills item.val and is stored
C31_Fits ==
  /\ lexcall.n = 1 /\ lexer.input = Rep(97, ITEMSIZ - 1)
  /\ lexcall.ret = lex_BARE_KEY /\ lexer.hi = ITEMSIZ
  /\ lexer.item.val = lexer.input


(***************************************************************************)
(* C32: the digits of an integer token.                                    *)
(***************************************************************************)

\* text without its sign
Unsigned(text) ==
  IF Len(text) >= 1 /\ text[1] \in {43, 45} THEN Tail(text) ELSE text

\* the digits of the radix that the prefix of u selects
RadixDigits(u) ==
  IF Len(u) >= 2 /\ u[1] = 48 /\ u[2] = 120 THEN XDigits
  ELSE IF Len(u) >= 2 /\ u[1] = 48 /\ u[2] = 111 THEN OctDigits
  ELSE IF Len(u) >= 2 /\ u[1] = 48 /\ u[2] = 98 THEN BinDigits
  ELSE Digits

\* u has a digit of its radix, behind the prefix when there is one
HasRadixDigit(u) ==
  \E i \in 1..Len(u) :
    /\ u[i] \in RadixDigits(u)
    /\ RadixDigits(u) # Digits => i >= 3

\* the text that the call scanned starts with a sign that no digit
\* follows, and is neither a float (+inf, -nan) nor an identifier (-x)
SignAlone ==
  /\ ItemStart <= Len(lexer.input)
  /\ lexer.input[ItemStart] \in {43, 45}
  /\ \/ ItemStart = Len(lexer.input)
     \/ /\ lexer.input[ItemStart + 1] \notin Digits \cup {105, 110}
        /\ lexer.input[ItemStart] = 45 =>
             lexer.input[ItemStart + 1] \notin IdentChars

\* C32: whenever lex_scan_next returns lex_INTEGER, the text of the token
\* has at least one digit of the radix selected; a sign with no digit
\* behind it and a radix prefix with no digit behind it yield lex_ERROR.
C32_IntegerHasDigit ==
  lexcall.n >= 1 =>
    /\ lexcall.ret = lex_INTEGER => HasRadixDigit(Unsigned(lexer.item.val))
    /\ SignAlone => lexcall.ret = lex_ERROR

\* +x was scanned as the integer +
C32_ViolationSign ==
  /\ lexcall.n >= 1 /\ lexcall.ret = lex_INTEGER
  /\ lexer.item.val \in {<<43>>, <<45>>}

\* 0x, 0o or 0b with no digit was scanned as an integer
C32_ViolationPrefix ==
  /\ lexcall.n >= 1 /\ lexcall.ret = lex_INTEGER
  /\ Len(lexer.item.val) = 2 /\ lexer.item.val[2] \in {120, 111, 98}

\* an integer token with its digits
C32_WithDigits ==
  (lexcall.n >= 1 /\ lexcall.ret = lex_INTEGER
     /\ lexer.item.val \notin {<<43>>, <<45>>}
     /\ ~(Len(lexer.item.val) = 2 /\ lexer.item.val[2] \in {120, 111, 98}))
    => HasRadixDigit(Unsigned(lexer.item.val))


(***************************************************************************)
(* C33: the calls of lex_scan_next after one that returned lex_ERROR.      *)
(***************************************************************************)

\* C33: once lex_scan_next has returned lex_ERROR for a lexer, every later
\* call on that lexer returns lex_ERROR or lex_eof: no further token is
\* produced from the rest of the text.
C33_NoTokenAfterError ==
  lexcall.errd => lexcall.ret \in {lex_ERROR, lex_eof}

\* -0x1: the sign of a hexadecimal number is an error, and the next call
\* yields the rest as the bare key x1
C33_Violation ==
  /\ lexer.input = Bytes(<<"-", "0", "x", "1">>)
  /\ lexcall.n = 2 /\ lexcall.errd
  /\ lexcall.ret = lex_BARE_KEY /\ lexer.item.val = Bytes(<<"x", "1">>)

\* an error at the end of the text is followed by lex_eof only
C33_ErrorAtEnd ==
  (lexcall.errd /\ lexcall.from = Len(lexer.input) + 1) =>
    lexcall.ret = lex_eof


(***************************************************************************)
(* C34: multiline literal strings, and the type of the item.               *)
(***************************************************************************)

\* the text that the call scanned starts with '''
MlLitOpen ==
  /\ lexcall.n >= 1
  /\ ItemStart + 2 <= Len(lexer.input)
  /\ \A i \in ItemStart..(ItemStart + 2) : lexer.input[i] = 39

\* where the closing ''' of the string opened at ItemStart starts, or
\* Len(input) + 1 when it is not closed
MlLitClose ==
  LET t == lexer.input IN
    CHOOSE i \in (ItemStart + 3)..(Len(t) + 1) :
      /\ i = Len(t) + 1
           \/ (i + 2 <= Len(t) /\ \A j \in i..(i + 2) : t[j] = 39)
      /\ \A k \in (ItemStart + 3)..(i - 1) :
           ~(k + 2 <= Len(t) /\ \A j \in k..(k + 2) : t[j] = 39)

\* C34: for a multiline literal string lex_scan_next consumes the text
\* through the closing quotes and returns lex_STRING with the content,
\* taken as it is, as the text of the token; and after every call the
\* value returned equals lexer.item.type.
C34_MlLiteralString ==
  lexcall.n >= 1 =>
    /\ lexcall.ret = lexer.item.type
    /\ (MlLitOpen /\ MlLitClose <= Len(lexer.input)) =>
         /\ lexcall.ret = lex_STRING
         /\ lexer.item.val = SubSeq(lexer.input, ItemStart + 3, MlLitClose - 1)
         /\ lexer.ptr = MlLitClose + 3

\* the first call on '''a''' returned lex_STRING, stopped behind the opening
\* quotes and left the item as lex_init found it
C34_Violation ==
  /\ lexer.input = <<39, 39, 39, 97, 39, 39, 39>>
  /\ lexcall.n = 1 /\ lexcall.ret = lex_STRING
  /\ lexer.ptr = 4 /\ lexer.item \in ItemFills /\ lexer.hi = 0

\* every other call returns the type that it stored in the item
C34_OtherCalls ==
  (lexcall.n >= 1 /\ ~MlLitOpen) => lexcall.ret = lexer.item.type


(***************************************************************************)
(* C35: the case of target_address that yields the address.                *)
(***************************************************************************)

\* the member of the union addr that holds the pointer of a key of a kind
OwnMember(type) ==
  IF type = "integer_t" THEN "integer"
  ELSE IF type = "uinteger_t" THEN "uinteger"
  ELSE IF type = "long_t" THEN "longint"
  ELSE IF type = "ulong_t" THEN "ulongint"
  ELSE IF type = "short_t" THEN "shortint"
  ELSE IF type = "ushort_t" THEN "ushortint"
  ELSE IF type = "real_t" THEN "real"
  ELSE IF type = "boolean_t" THEN "boolean"
  ELSE "string"

AllScalarKinds ==
  {"integer_t", "uinteger_t", "long_t", "ulong_t", "short_t", "ushort_t",
   "real_t", "boolean_t", "string_t"}

\* C35: for a key/value of a scalar kind outside the scope of an array of
\* tables, target_address (toml.c) returns the pointer stored in the
\* descriptor, and it takes it from the member of that kind in the case
\* of that kind only: the case does not run on into the case of another
\* kind.
C35_OwnCaseOnly ==
  (act = "kv" /\ pc = "loop" /\ ActiveScope \in {"root", "t"}) =>
    LET d == Lookup(Schema[ActiveScope], Toks(inp)[1].text) IN
      d.type \in AllScalarKinds =>
        /\ target_address(d, NoArray, 0) = d.addr
        /\ target_cases(d.type) = <<OwnMember(d.type)>>

\* the same for mtoml.c
C35_OwnCaseOnlyM ==
  (act = "kv" /\ pc = "loop") =>
    LET d == Lookup(MSchema[curtab], Toks(inp)[1].text) IN
      d.type \in AllScalarKinds =>
        /\ m_target_address(d) = d.addr
        /\ m_target_cases(d.type) = <<OwnMember(d.type)>>

\* b = true was stored through the address that the string case yielded
C35_Violation ==
  /\ act = "kv" /\ pc = "loop" /\ ActiveScope = "root"
  /\ Toks(inp)[1].text = K_b /\ Toks(inp)[3].text = T_true
  /\ wlog = << <<A_b, 1, Toks(inp)[3].p>> >>
  /\ target_cases("boolean_t")[2] = "string"

\* the address returned is the pointer stored, whichever case yields it,
\* and every kind but boolean is served by its own case
C35_StoredPointer ==
  (act = "kv" /\ pc = "loop" /\ ActiveScope \in {"root", "t"}) =>
    LET d == Lookup(Schema[ActiveScope], Toks(inp)[1].text) IN
      d.type \in AllScalarKinds =>
        /\ target_address(d, NoArray, 0) = d.addr
        /\ wlog # <<>> /\ wlog[1][1] = d.addr
        /\ d.type # "boolean_t" =>
             target_cases(d.type) = <<OwnMember(d.type)>>


(***************************************************************************)
(* C36: integers given to the kinds narrower than long.                    *)
(***************************************************************************)

NarrowKinds == {"short_t", "ushort_t", "integer_t", "uinteger_t"}

\* the width in bits of the objects of a kind
WidthOf(type) ==
  IF type \in {"short_t", "ushort_t"} THEN ShortBits ELSE LongBits

\* the values of the objects of a kind of ShortBits bits
ValuesOf(type) ==
  IF type = "ushort_t" THEN 0..(Pow2(ShortBits) - 1)
  ELSE (0 - Pow2(ShortBits - 1))..(Pow2(ShortBits - 1) - 1)

\* the cell content v is the value val of a long truncated to the kind: for
\* a kind of ShortBits bits a value of the kind that is congruent to val
\* modulo 2^w, for a kind as wide as long the bits of val
TruncatedTo(type, val, v) ==
  IF WidthOf(type) = LongBits THEN v = val
  ELSE /\ v \in ValuesOf(type)
       /\ val % Pow2(ShortBits) = v % Pow2(ShortBits)

C36_WitnessNegative ==
  /\ act = "kv" /\ pc = "loop" /\ Toks(inp)[1].text = K_u
  /\ Toks(inp)[3].text = Bytes(<<"-", "1">>)
  /\ mem[A_u] = 65535

\* h = 32768 was accepted and the short h holds -32768
C36_WitnessSign ==
  /\ act = "kv" /\ pc = "loop" /\ Toks(inp)[1].text = K_h
  /\ Toks(inp)[3].text = Bytes(<<"3", "2", "7", "6", "8">>)
  /\ mem[A_h] = 0 - 32768

\* i = -1 was accepted and the unsigned int i holds the bits of -1, which
\* is the value 2^LongBits - 1
C36_WitnessUInt ==
  /\ act = "kv" /\ pc = "loop" /\ Toks(inp)[1].text = K_i
  /\ Toks(inp)[3].text = Bytes(<<"-", "1">>)
  /\ mem[A_i] = 0 - 1

\* q = [70000,-1] was accepted and q holds 4464 and 65535
C36_WitnessArray ==
  /\ act = "kv" /\ pc = "loop" /\ Toks(inp)[1].text = K_q
  /\ mem[A_q] = 4464 /\ mem[A_q + 1] = 65535 /\ mem[A_qcount] = 2


(***************************************************************************)
(* C37: the store of an array of strings.                                  *)
(***************************************************************************)

\* the bytes of the store that the elements of E before position i take,
\* each with its terminator
RECURSIVE UsedBefore(_, _, _)
UsedBefore(tk, E, i) ==
  IF i <= 1 THEN 0
  ELSE UsedBefore(tk, E, i - 1)
         + (IF (i - 1) \in E THEN Len(tk[i - 1].text) + 1 ELSE 0)

\* C37: in load_array for an array of strings every write goes to the
\* store store[0..storelen), to ptrs[0..maxlen) or, last and on success
\* only, to the count; on success ptrs[i] is the start of element i in the
\* store, the elements follow each other there without overlap, each with
\* its terminator, wholly inside the store; and an element that does not
\* fit in what is left of the store makes toml_load return -1.
C37_StringArena ==
  (act = "kv" /\ Len(Toks(inp)) >= 3 /\ Toks(inp)[3].tok = LBRACKET
     /\ ElemKind(ActiveScope, Toks(inp)[1].text) = "string_t") =>
    LET tk  == Toks(inp)
        arr == Lookup(Schema[ActiveScope], tk[1].text).array
        E   == ElemPos(tk)
    IN  /\ \A k \in 1..Len(wlog) :
             \/ wlog[k][1] \in arr.store..(arr.store + arr.storelen - 1)
             \/ wlog[k][1] \in arr.ptrs..(arr.ptrs + arr.maxlen - 1)
             \/ wlog[k][1] = arr.count /\ k = Len(wlog) /\ pc = "loop"
        /\ pc = "loop" =>
             \A i \in E :
               LET a == arr.store + UsedBefore(tk, E, i) IN
                 /\ mem[arr.ptrs + IndexIn(E, i)] = a
                 /\ a + Len(tk[i].text) + 1 <= arr.store + arr.storelen
                 /\ TextAt(a, Len(tk[i].text)) = tk[i].text
                 /\ mem[a + Len(tk[i].text)] = NUL
        /\ (\E i \in E : UsedBefore(tk, E, i) + Len(tk[i].text) + 1
                            > arr.storelen)
             => Failed

\* w = ["a","b"] was accepted: the two elements fill the store
C37_Witness ==
  /\ act = "kv" /\ pc = "loop" /\ Toks(inp)[1].text = K_w
  /\ mem[A_wptrs] = A_wstore /\ mem[A_wptrs + 1] = A_wstore + 2
  /\ TextAt(A_wstore, StoreLen) = <<97, NUL, 98, NUL>>
  /\ mem[A_wcount] = 2

\* w = ["aaa","b"] was refused: the first element was stored, with none of
\* the store left, and the second was not
C37_WitnessFull ==
  /\ act = "kv" /\ Failed /\ Toks(inp)[1].text = K_w
  /\ Toks(inp)[4].text = <<97, 97, 97>>
  /\ TextAt(A_wstore, StoreLen) = <<97, 97, 97, NUL>>
  /\ mem[A_wptrs + 1] = A_wstore + StoreLen
  /\ mem[A_wcount] = mem0[A_wcount]


(***************************************************************************)
(* C38: termination.                                                       *)
(***************************************************************************)

\* the sizes that toml_load gives to scan: that of the token buffer and the
\* capacities of the string keys
ScanSizes == {TOKBUFSIZ, SLen, GLen}

\* where the scan of the j-th token of In starts
ScanStart(In, j) == IF j = 1 THEN 1 ELSE Toks(In)[j - 1].p

\* The iteration of the top-level loop that the state ends has consumed
\* input or has ended the parse, and every scan made from the start of a
\* token of its input, which is how each iteration of the loops of
\* toml_load, load_array and load_inline_table starts, either returns -1,
\* which ends the loop, or has consumed at least one character.
C38_LoadProgress ==
  act # "none" =>
    /\ pc = "done" \/ Len(buf) < Len(inp)
    /\ \A j \in 1..Len(Toks(inp)), size \in ScanSizes :
         \/ scan(inp, ScanStart(inp, j), size).tok = -1
         \/ scan(inp, ScanStart(inp, j), size).p > ScanStart(inp, j)

\* A call of lex_scan_next that returned a token other than lex_eof and
\* lex_ERROR has advanced ptr, and after a call that returned lex_eof every
\* call returns lex_eof.
C38_LexProgress ==
  lexcall.n >= 1 =>
    /\ lexcall.ret \notin {lex_eof, lex_ERROR} => lexer.ptr > lexcall.from
    /\ lexcall.eofs >= 1 => lexcall.ret = lex_eof

\* toml_load has returned, resp. lex_scan_next has returned lex_eof or
\* lex_ERROR, at which a caller that reads the text token by token stops
C38_Halted ==
  \/ lexer = LexIdle /\ pc = "done"
  \/ lexer # LexIdle /\ lexcall.n >= 1 /\ lexcall.ret \in {lex_eof, lex_ERROR}

\* C38: toml_load (toml.c) and lex_scan_next terminate on every finite
\* input: every iteration of the loops of toml_load consumes at least one
\* character or ends the parse, every call of lex_scan_next that returns
\* a token other than lex_eof and lex_ERROR has advanced the input
\* position, once lex_eof was returned every later call returns it again,
\* and in the end toml_load returns and lex_scan_next returns lex_eof or
\* lex_ERROR.
C38_Terminates ==
  /\ [](C38_LoadProgress /\ C38_LexProgress)
  /\ <>C38_Halted

\* the calls on a text with several tokens, one of them refused, have
\* reached its end and returned lex_eof PostCalls times
C38_Witness ==
  /\ lexer # LexIdle /\ lexcall.eofs = PostCalls /\ lexcall.errd
  /\ lexcall.n >= PostCalls + 3 /\ lexer.ptr = Len(lexer.input) + 1

\* toml_load has returned 0 at the end of a file of MaxLines pieces
C38_WitnessLoad ==
  /\ lexer = LexIdle /\ pc = "done" /\ ret = 0 /\ act = "end"
  /\ nfed = MaxLines /\ buf = <<>>

====
